---- MODULE Spec2Model ----
(***************************************************************************)
(* Model of the antique evaluator: the Streamlit page (app.py main and the *)
(* two process_evaluation_* paths), AntiqueEvaluator.evaluate_antique and  *)
(* the response interpreter _parse_json_response with its regex fallbacks. *)
(*                                                                         *)
(* Text is a sequence of lexemes.  A lexeme is a record [t, w, n]:         *)
(*   t = "ws"    whitespace, w is " " or "newline"                         *)
(*   t = "p"     one punctuation character, w is the character             *)
(*   t = "fence" the three backticks of a code fence                       *)
(*   t = "word"  a run of letters, w is the run (lower case unless noted)  *)
(*   t = "num"   a run of decimal digits, n is its value                   *)
(*   t = "text"  a run of n prose characters holding no digit, quote,      *)
(*               brace, backslash, newline, keyword or letter n            *)
(* The completions of the model are written in lower case and do not hold  *)
(* the default phrases of the interpreter (they occur only in its output). *)
(* Python's str.find / slices are 0-based; the model is 1-based and uses 0 *)
(* for "not found" (Python -1).                                            *)
(***************************************************************************)
EXTENDS Integers, Sequences, FiniteSets, TLC

VARIABLES
    pc,            \* position of the modelled call or page run
    session,       \* st.session_state: the keys main and its helpers use
    uploaded,      \* value of the file_uploader widget: sequence of files
    config,        \* module config: the sources it read and the key it holds
    api_key,       \* config.OPENAI_API_KEY is non-empty
    args,          \* arguments of the evaluate_antique call
    completion,    \* what the model API answers: [raises, none, text]
    api_calls,     \* calls of client.chat.completions.create in this run
    message,       \* user_message_content of the last model call
    result,        \* dict returned by evaluate_antique
    image_content, \* list returned by a _prepare_image_content call
    parsed,        \* outcome of a direct _parse_json_response call
    report,        \* a direct call of a report function: its text and output
    score_call,    \* a direct call of _extract_authenticity_score
    launcher,      \* a run of the launcher's main: its steps and outcome
    form,          \* the five text inputs of the page
    ui             \* what the last script run of the page did

vars == <<pc, session, uploaded, config, api_key, args, completion, api_calls,
          message, result, image_content, parsed, report, score_call, launcher, form, ui>>

----------------------------------------------------------------------------
(* Lexemes *)

Lx(t, w, n) == [t |-> t, w |-> w, n |-> n]
SP    == Lx("ws", " ", 0)
NL    == Lx("ws", "newline", 0)
P(c)  == Lx("p", c, 0)
LB    == P("{")
RB    == P("}")
COLON == P(":")
COMMA == P(",")
QUOTE == P("quote")
BS    == P("backslash")
PCT   == P("%")
MINUS == P("-")
DOT   == P(".")
FENCE == Lx("fence", "", 0)
W(w)  == Lx("word", w, 0)
N(n)  == Lx("num", "", n)
T(n)  == Lx("text", "", n)

IsWs(l) == l.t = "ws"

RECURSIVE Cat(_)
\* "".join(parts)
Cat(parts) == IF parts = <<>> THEN <<>> ELSE Head(parts) \o Cat(Tail(parts))

Slice(s, a, b) == IF a > b THEN <<>> ELSE SubSeq(s, a, b)

\* the least / greatest of a non-empty set of positions
Least(S) == CHOOSE x \in S : \A y \in S : x <= y
Greatest(S) == CHOOSE x \in S : \A y \in S : x >= y

\* the first / last position of a set of positions, 0 when there is none
First(S) == IF S = {} THEN 0 ELSE Least(S)
Last(S) == IF S = {} THEN 0 ELSE Greatest(S)

\* position after the run of lexemes of the set skip that starts at i
SkipWhile(s, i, skip) ==
    IF i > Len(s) THEN i
    ELSE Least({j \in i..(Len(s) + 1) : j > Len(s) \/ s[j] \notin skip})

LStrip(s) ==
    LET k == First({j \in 1..Len(s) : ~IsWs(s[j])})
    IN  IF k = 0 THEN <<>> ELSE SubSeq(s, k, Len(s))

RStrip(s) ==
    LET k == Last({j \in 1..Len(s) : ~IsWs(s[j])})
    IN  IF k = 0 THEN <<>> ELSE SubSeq(s, 1, k)

\* str.strip()
Strip(s) == RStrip(LStrip(s))

\* str.find(c, i): first position of the character at or after i
FindFrom(s, l, i) == First({j \in i..Len(s) : s[j] = l})

\* str.find(c): first position of the character, 0 when absent
Find(s, l) == FindFrom(s, l, 1)

\* str.rfind(c, 0, i): last position of the character at or before i
RFindFrom(s, l, i) == Last({j \in 1..i : s[j] = l})

\* str.rfind(c): last position of the character, 0 when absent
RFind(s, l) == RFindFrom(s, l, Len(s))

\* position after a run of \s* starting at i
SkipWs(s, i) == SkipWhile(s, i, {SP, NL})

At(s, i) == IF i >= 1 /\ i <= Len(s) THEN s[i] ELSE Lx("end", "", 0)

\* s has the lexemes of pat at position i
MatchAt(s, i, pat) ==
    /\ i >= 1
    /\ i + Len(pat) - 1 <= Len(s)
    /\ \A k \in 1..Len(pat) : s[i + k - 1] = pat[k]

----------------------------------------------------------------------------
(* JSON values and json.loads on the span from the first { to the last } *)

Fields == <<"authenticity_score", "category", "period", "material",
            "brief_analysis", "detailed_report">>
FieldSet == {Fields[i] : i \in 1..Len(Fields)}

\* a value of the parsed dict: ty is int, float, str, null, or missing when
\* the key is not in the dict; a float keeps its whole part in n
JV(ty, n, s) == [ty |-> ty, n |-> n, s |-> s]
Missing == JV("missing", 0, <<>>)
JNull   == JV("null", 0, <<>>)
JInt(n) == JV("int", n, <<>>)
JStr(s) == JV("str", 0, s)
EmptyDict == [k \in FieldSet |-> Missing]

RECURSIVE JsonStringBody(_, _, _)
\* scans a JSON string whose opening quote is before position i: decodes
\* the escapes of quote, backslash and newline, rejects a raw newline and any other escape
JsonStringBody(s, i, acc) ==
    IF i > Len(s) THEN [ok |-> FALSE, s |-> <<>>, next |-> 0]
    ELSE IF s[i] = QUOTE THEN [ok |-> TRUE, s |-> acc, next |-> i + 1]
    ELSE IF s[i] = NL THEN [ok |-> FALSE, s |-> <<>>, next |-> 0]
    ELSE IF s[i] = BS THEN
        IF At(s, i + 1) = QUOTE THEN JsonStringBody(s, i + 2, Append(acc, QUOTE))
        ELSE IF At(s, i + 1) = BS THEN JsonStringBody(s, i + 2, Append(acc, BS))
        ELSE IF At(s, i + 1) = W("n") THEN JsonStringBody(s, i + 2, Append(acc, NL))
        ELSE [ok |-> FALSE, s |-> <<>>, next |-> 0]
    ELSE JsonStringBody(s, i + 1, Append(acc, s[i]))

JsonString(s, i) ==
    IF At(s, i) = QUOTE THEN JsonStringBody(s, i + 1, <<>>)
    ELSE [ok |-> FALSE, s |-> <<>>, next |-> 0]

\* a JSON number: -? digits (. digits)?
JsonNumber(s, i) ==
    LET neg == At(s, i) = MINUS
        d   == IF neg THEN i + 1 ELSE i
    IN  IF At(s, d).t # "num" THEN [ok |-> FALSE, v |-> Missing, next |-> 0]
        ELSE LET whole == IF neg THEN 0 - s[d].n ELSE s[d].n
             IN  IF At(s, d + 1) = DOT /\ At(s, d + 2).t = "num"
                 THEN [ok |-> TRUE, v |-> JV("float", whole, <<>>), next |-> d + 3]
                 ELSE [ok |-> TRUE, v |-> JInt(whole), next |-> d + 1]

JsonValue(s, i) ==
    IF At(s, i) = QUOTE THEN
        LET r == JsonString(s, i)
        IN  [ok |-> r.ok, v |-> JStr(r.s), next |-> r.next]
    ELSE IF At(s, i) = W("null") THEN [ok |-> TRUE, v |-> JNull, next |-> i + 1]
    ELSE JsonNumber(s, i)

JsonFail == [ok |-> FALSE, data |-> EmptyDict]

\* dict[key] = value; keys other than the six fields are not tracked
DictPut(d, key, v) ==
    IF Len(key) = 1 /\ key[1].t = "word" /\ key[1].w \in FieldSet
    THEN [d EXCEPT ![key[1].w] = v] ELSE d

RECURSIVE JsonMembers(_, _, _)
\* i is at the first lexeme of a member
JsonMembers(s, i, d) ==
    LET k == JsonString(s, i) IN
    IF ~k.ok THEN JsonFail ELSE
    LET c == SkipWs(s, k.next) IN
    IF At(s, c) # COLON THEN JsonFail ELSE
    LET v == JsonValue(s, SkipWs(s, c + 1)) IN
    IF ~v.ok THEN JsonFail ELSE
    LET d2 == DictPut(d, k.s, v.v)
        e  == SkipWs(s, v.next)
    IN  IF At(s, e) = RB THEN
            IF e = Len(s) THEN [ok |-> TRUE, data |-> d2] ELSE JsonFail
        ELSE IF At(s, e) = COMMA THEN JsonMembers(s, SkipWs(s, e + 1), d2)
        ELSE JsonFail

\* json.loads(json_str): ok is FALSE for json.JSONDecodeError
json_loads(s) ==
    IF At(s, 1) # LB THEN JsonFail
    ELSE LET i == SkipWs(s, 2)
         IN  IF At(s, i) = RB
             THEN IF i = Len(s) THEN [ok |-> TRUE, data |-> EmptyDict] ELSE JsonFail
             ELSE JsonMembers(s, i, EmptyDict)

----------------------------------------------------------------------------
(* Words.  Chinese words are written by name:                              *)
(*   zh_kexindu 可信度, zh_kexindu_pingfen 可信度评分, zh_jianding_pinggu  *)
(*   鉴定评估, zh_zuizhong_kexindu 最终可信度, zh_zongti_kexindu 总体可信度, *)
(*   zh_zhenpin_kenengxing 真品可能性, zh_zhenpin 真品, zh_gao_kexindu      *)
(*   高可信度, zh_zhongdeng_kexindu 中等可信度, zh_jiaodi_kexindu 较低可信度, *)
(*   zh_di_kexindu 低可信度, zh_fangzhipin 仿制品, zh_leixing 类型,         *)
(*   zh_shuyu 属于, zh_ciqi 瓷器, zh_chaodai 朝代, zh_shiqi 时期,           *)
(*   zh_niandai 年代, zh_caizhi 材质, zh_taiti 胎体, zh_youliao 釉料,       *)
(*   zh_jianyao_fenxi 简要分析, zh_zonghe_panduan 综合判断,                 *)
(*   zh_henkeneng_zhenpin 很可能是真品, zh_xuyao_jinyibu 需要进一步,        *)
(*   zh_cunzai_yidian 存在疑点, zh_xiandai_zhipin 现代制品,                 *)
(*   zh_yuqi 玉器, zh_qingtongqi 青铜器, zh_shuhua 书画, zh_jiaju 家具,      *)
(*   zh_taoqi 陶器, zh_nianjian 年间, zh_fangpin 仿品, zh_keneng 可能,      *)
(*   zh_panduan 判断, zh_fenxi 分析, zh_shichang_pinggu 市场评估,           *)
(*   and the fixed default strings                                         *)
(*   zh_default_category 古董文物, zh_default_period 年代待定,              *)
(*   zh_default_material 材质分析中, zh_default_brief 需要进一步专业分析,   *)
(*   zh_default_report 分析报告生成中...                                    *)
(*   zh_comma ， zh_stop 。 zh_colon ： zh_excl ！ zh_quest ？              *)

ZhWordLen ==
    [w \in {"zh_kexindu", "zh_kexindu_pingfen", "zh_jianding_pinggu",
            "zh_zuizhong_kexindu", "zh_zongti_kexindu", "zh_zhenpin_kenengxing",
            "zh_zhenpin", "zh_gao_kexindu", "zh_zhongdeng_kexindu",
            "zh_jiaodi_kexindu", "zh_di_kexindu", "zh_fangzhipin", "zh_leixing",
            "zh_shuyu", "zh_ciqi", "zh_chaodai", "zh_shiqi", "zh_niandai",
            "zh_caizhi", "zh_taiti", "zh_youliao", "zh_jianyao_fenxi",
            "zh_zonghe_panduan", "zh_henkeneng_zhenpin", "zh_xuyao_jinyibu",
            "zh_cunzai_yidian", "zh_xiandai_zhipin", "zh_yuqi", "zh_qingtongqi",
            "zh_shuhua", "zh_jiaju", "zh_taoqi", "zh_nianjian", "zh_fangpin",
            "zh_keneng", "zh_panduan", "zh_fenxi", "zh_shichang_pinggu",
            "zh_default_category",
            "zh_default_period", "zh_default_material", "zh_default_brief",
            "zh_default_report"} |->
        CASE w \in {"zh_zhenpin", "zh_leixing", "zh_shuyu", "zh_ciqi", "zh_yuqi",
                    "zh_shuhua", "zh_jiaju", "zh_taoqi", "zh_nianjian",
                    "zh_fangpin", "zh_keneng", "zh_panduan", "zh_fenxi",
                    "zh_chaodai", "zh_shiqi", "zh_niandai", "zh_caizhi",
                    "zh_taiti", "zh_youliao"} -> 2
          [] w \in {"zh_kexindu", "zh_fangzhipin", "zh_qingtongqi"} -> 3
          [] w \in {"zh_jianding_pinggu", "zh_gao_kexindu", "zh_di_kexindu",
                    "zh_jianyao_fenxi", "zh_zonghe_panduan", "zh_cunzai_yidian",
                    "zh_xiandai_zhipin", "zh_shichang_pinggu",
                    "zh_default_category", "zh_default_period"} -> 4
          [] w = "zh_henkeneng_zhenpin" -> 6
          [] w = "zh_default_brief" -> 9
          [] w = "zh_default_report" -> 10
          [] OTHER -> 5]

\* the English words of the model's texts: length, the letters before the
\* first letter n and those after the last one ("-" when the word has no n)
EnWord ==
    [w \in {"authenticity_score", "category", "period", "material",
            "brief_analysis", "detailed_report", "null", "n", "json",
            "confidence", "score", "authenticity", "authentication",
            "assessment", "final", "overall", "high", "moderate", "low",
            "very", "likely", "authentic", "further", "examination",
            "concerns", "present", "reproduction", "modern", "piece", "vase",
            "complete", "professional", "analysis"} |->
        CASE w = "authenticity_score" -> [len |-> 18, cut |-> "authe", tail |-> "ticity_score"]
          [] w = "category"        -> [len |-> 8,  cut |-> "-", tail |-> "-"]
          [] w = "period"          -> [len |-> 6,  cut |-> "-", tail |-> "-"]
          [] w = "material"        -> [len |-> 8,  cut |-> "-", tail |-> "-"]
          [] w = "brief_analysis"  -> [len |-> 14, cut |-> "brief_a", tail |-> "alysis"]
          [] w = "detailed_report" -> [len |-> 15, cut |-> "-", tail |-> "-"]
          [] w = "null"            -> [len |-> 4,  cut |-> "", tail |-> "ull"]
          [] w = "n"               -> [len |-> 1,  cut |-> "", tail |-> ""]
          [] w = "json"            -> [len |-> 4,  cut |-> "jso", tail |-> ""]
          [] w = "confidence"      -> [len |-> 10, cut |-> "co", tail |-> "ce"]
          [] w = "score"           -> [len |-> 5,  cut |-> "-", tail |-> "-"]
          [] w = "authenticity"    -> [len |-> 12, cut |-> "authe", tail |-> "ticity"]
          [] w = "authentication"  -> [len |-> 14, cut |-> "authe", tail |-> ""]
          [] w = "assessment"      -> [len |-> 10, cut |-> "assessme", tail |-> "t"]
          [] w = "final"           -> [len |-> 5,  cut |-> "fi", tail |-> "al"]
          [] w = "overall"         -> [len |-> 7,  cut |-> "-", tail |-> "-"]
          [] w = "high"            -> [len |-> 4,  cut |-> "-", tail |-> "-"]
          [] w = "moderate"        -> [len |-> 8,  cut |-> "-", tail |-> "-"]
          [] w = "low"             -> [len |-> 3,  cut |-> "-", tail |-> "-"]
          [] w = "very"            -> [len |-> 4,  cut |-> "-", tail |-> "-"]
          [] w = "likely"          -> [len |-> 6,  cut |-> "-", tail |-> "-"]
          [] w = "authentic"       -> [len |-> 9,  cut |-> "authe", tail |-> "tic"]
          [] w = "further"         -> [len |-> 7,  cut |-> "-", tail |-> "-"]
          [] w = "examination"     -> [len |-> 11, cut |-> "exami", tail |-> ""]
          [] w = "concerns"        -> [len |-> 8,  cut |-> "co", tail |-> "s"]
          [] w = "present"         -> [len |-> 7,  cut |-> "prese", tail |-> "t"]
          [] w = "reproduction"    -> [len |-> 12, cut |-> "reproductio", tail |-> ""]
          [] w = "modern"          -> [len |-> 6,  cut |-> "moder", tail |-> ""]
          [] w = "piece"           -> [len |-> 5,  cut |-> "-", tail |-> "-"]
          [] w = "vase"            -> [len |-> 4,  cut |-> "-", tail |-> "-"]
          [] w = "complete"        -> [len |-> 8,  cut |-> "-", tail |-> "-"]
          [] w = "professional"    -> [len |-> 12, cut |-> "professio", tail |-> "al"]
          [] OTHER                 -> [len |-> 8,  cut |-> "a", tail |-> "alysis"]]

IsZh(w) == w \in DOMAIN ZhWordLen

\* number of decimal digits of a digit run
NumLen(n) == IF n < 10 THEN 1 ELSE IF n < 100 THEN 2 ELSE IF n < 1000 THEN 3 ELSE 4

\* len() of a lexeme in characters; a word cut before its n is a word whose
\* name is not in the tables and counts as its cut length allows (at most 11)
Width(l) ==
    CASE l.t = "ws"    -> 1
      [] l.t = "p"     -> 1
      [] l.t = "fence" -> 3
      [] l.t = "num"   -> NumLen(l.n)
      [] l.t = "text"  -> l.n
      [] l.t = "word"  -> IF IsZh(l.w) THEN ZhWordLen[l.w]
                          ELSE IF l.w \in DOMAIN EnWord THEN EnWord[l.w].len
                          ELSE 5
      [] OTHER         -> 0

RECURSIVE TextLen(_)
\* len() of a text: the widths of its halves
TextLen(s) ==
    IF Len(s) = 0 THEN 0
    ELSE IF Len(s) = 1 THEN Width(s[1])
    ELSE LET h == Len(s) \div 2
         IN  TextLen(SubSeq(s, 1, h)) + TextLen(SubSeq(s, h + 1, Len(s)))

\* the word holds the letter n
HasN(l) == l.t = "word" /\ l.w \in DOMAIN EnWord /\ EnWord[l.w].cut # "-"

----------------------------------------------------------------------------
(* _extract_authenticity_score *)

ZhColon == P("zh_colon")

\* position after a run of [：:\s]* starting at i
SkipColonWs(s, i) == SkipWhile(s, i, {SP, NL, COLON, ZhColon})

\* LABEL[：:\s]*(\d+)%? at position i, for one of the alternative labels
LabelScoreAt(s, i, labels) ==
    IF \E lab \in labels : MatchAt(s, i, lab) THEN
        LET lab == CHOOSE x \in labels : MatchAt(s, i, x)
            j   == SkipColonWs(s, i + Len(lab))
        IN  IF At(s, j).t = "num"
            THEN [ok |-> TRUE, n |-> s[j].n,
                  next |-> IF At(s, j + 1) = PCT THEN j + 2 ELSE j + 1]
            ELSE [ok |-> FALSE, n |-> 0, next |-> 0]
    ELSE [ok |-> FALSE, n |-> 0, next |-> 0]

RECURSIVE LabelScores(_, _, _)
\* re.findall(LABEL[：:\s]*(\d+)%?): the numbers of the matches from i on,
\* each match found from the end of the one before
LabelScores(s, i, labels) ==
    LET k == First({j \in i..Len(s) : LabelScoreAt(s, j, labels).ok})
    IN  IF k = 0 THEN <<>>
        ELSE <<LabelScoreAt(s, k, labels).n>>
             \o LabelScores(s, LabelScoreAt(s, k, labels).next, labels)

\* the first match of LABEL[：:\s]*(\d+)%? at or after i
FirstLabelScore(s, i, labels) ==
    LET k == First({j \in i..Len(s) : LabelScoreAt(s, j, labels).ok})
    IN  IF k = 0 THEN [ok |-> FALSE, n |-> 0, next |-> 0]
        ELSE LabelScoreAt(s, k, labels)

RECURSIVE HeadedScores(_, _, _, _)
\* re.findall(HEAD.*?LABEL[：:\s]*(\d+)%?, DOTALL): after each heading the
\* first labelled number that follows it
HeadedScores(s, i, heads, labels) ==
    LET k == First({j \in i..Len(s) : \E h \in heads : MatchAt(s, j, h)})
    IN  IF k = 0 THEN <<>>
        ELSE LET h == CHOOSE x \in heads : MatchAt(s, k, x)
                 m == FirstLabelScore(s, k + Len(h), labels)
             IN  IF m.ok THEN <<m.n>> \o HeadedScores(s, m.next, heads, labels)
                 ELSE <<>>

AssessmentHeads == {<<W("authentication"), SP, W("assessment")>>,
                    <<W("zh_jianding_pinggu")>>}
ConfidenceScoreLabels == {<<W("confidence"), SP, W("score")>>,
                          <<W("zh_kexindu_pingfen")>>}
FinalConfidenceLabels == {<<W("final"), SP, W("confidence")>>,
                          <<W("zh_zuizhong_kexindu")>>}
OverallConfidenceLabels == {<<W("overall"), SP, W("confidence")>>,
                            <<W("zh_zongti_kexindu")>>}
AuthenticityLabels == {<<W("authenticity")>>, <<W("zh_zhenpin_kenengxing")>>}

\* structured_patterns, each with the list re.findall gives for it
StructuredMatches(s) ==
    << HeadedScores(s, 1, AssessmentHeads, ConfidenceScoreLabels),
       LabelScores(s, 1, ConfidenceScoreLabels),
       LabelScores(s, 1, FinalConfidenceLabels),
       LabelScores(s, 1, OverallConfidenceLabels),
       LabelScores(s, 1, AuthenticityLabels) >>

\* the words holding confidence, 可信度, authenticity or 真品, with the number
\* of characters of the word before and after that part
ConfWord ==
    [w \in {"confidence", "authenticity", "authenticity_score", "zh_kexindu",
            "zh_kexindu_pingfen", "zh_zuizhong_kexindu", "zh_zongti_kexindu",
            "zh_zhenpin_kenengxing", "zh_zhenpin", "zh_gao_kexindu",
            "zh_zhongdeng_kexindu", "zh_jiaodi_kexindu", "zh_di_kexindu",
            "zh_henkeneng_zhenpin"} |->
        CASE w = "authenticity_score"    -> [pre |-> 0, post |-> 6]
          [] w = "zh_henkeneng_zhenpin"  -> [pre |-> 4, post |-> 0]
          [] w = "zh_kexindu_pingfen"    -> [pre |-> 0, post |-> 2]
          [] w = "zh_zuizhong_kexindu"   -> [pre |-> 2, post |-> 0]
          [] w = "zh_zongti_kexindu"     -> [pre |-> 2, post |-> 0]
          [] w = "zh_zhenpin_kenengxing" -> [pre |-> 0, post |-> 3]
          [] w = "zh_gao_kexindu"        -> [pre |-> 1, post |-> 0]
          [] w = "zh_zhongdeng_kexindu"  -> [pre |-> 2, post |-> 0]
          [] w = "zh_jiaodi_kexindu"     -> [pre |-> 2, post |-> 0]
          [] w = "zh_di_kexindu"         -> [pre |-> 1, post |-> 0]
          [] OTHER                       -> [pre |-> 0, post |-> 0]]

IsConfWord(l) == l.t = "word" /\ l.w \in DOMAIN ConfWord

ContextWindow == 50

\* the characters from j0 to j are on one line and start within the window
InWindow(s, j0, j, gap) ==
    /\ \A k \in j0..j : s[k] # NL
    /\ gap + TextLen(Slice(s, j0, j - 1)) <= ContextWindow

\* .{0,50}?(\d+)% from position j0 with gap characters already passed: the
\* nearest digit run followed by % on the same line, within the window
PctAfter(s, j0, gap) ==
    LET k == First({j \in j0..Len(s) :
                      /\ s[j].t = "num" /\ At(s, j + 1) = PCT
                      /\ InWindow(s, j0, j, gap)})
    IN  IF k = 0 THEN [ok |-> FALSE, n |-> 0, next |-> 0]
        ELSE [ok |-> TRUE, n |-> s[k].n, next |-> k + 2]

RECURSIVE ConfThenPct(_, _)
\* re.findall((?:confidence|可信度|authenticity|真品).{0,50}?(\d+)%)
ConfThenPct(s, i) ==
    LET k == First({j \in i..Len(s) :
                      /\ IsConfWord(s[j])
                      /\ PctAfter(s, j + 1, ConfWord[s[j].w].post).ok})
    IN  IF k = 0 THEN <<>>
        ELSE LET m == PctAfter(s, k + 1, ConfWord[s[k].w].post)
             IN  <<m.n>> \o ConfThenPct(s, m.next)

\* .{0,50}?(?:confidence|...) from position j0: the nearest such word on the
\* same line whose start is within the window; 0 when there is none
ConfAfter(s, j0, gap) ==
    First({j \in j0..Len(s) :
             /\ IsConfWord(s[j])
             /\ \A k \in j0..j : s[k] # NL
             /\ gap + TextLen(Slice(s, j0, j - 1)) + ConfWord[s[j].w].pre
                    <= ContextWindow})

\* the end of the digit run at i with its optional %
AfterNumber(s, i) == IF At(s, i + 1) = PCT THEN i + 2 ELSE i + 1

RECURSIVE NumThenConf(_, _)
\* re.findall((\d+)%?.{0,50}?(?:confidence|可信度|authenticity|真品))
NumThenConf(s, i) ==
    LET k == First({j \in i..Len(s) :
                      s[j].t = "num" /\ ConfAfter(s, AfterNumber(s, j), 0) # 0})
    IN  IF k = 0 THEN <<>>
        ELSE <<s[k].n>> \o NumThenConf(s, ConfAfter(s, AfterNumber(s, k), 0) + 1)

\* confidence_context_patterns
ContextMatches(s) == << ConfThenPct(s, 1), NumThenConf(s, 1) >>

RECURSIVE Percentages(_, _)
\* re.findall((\d+)%)
Percentages(s, i) ==
    LET k == First({j \in i..Len(s) : s[j].t = "num" /\ At(s, j + 1) = PCT})
    IN  IF k = 0 THEN <<>> ELSE <<s[k].n>> \o Percentages(s, k + 2)

\* [s for s in scores if s in keep]
SelectSeq2(q, keep) == SelectSeq(q, LAMBDA x : x \in keep)

InRange(n) == 0 <= n /\ n <= 100

RECURSIVE FirstUsable(_, _)
\* the loops over a pattern list: the last match of the first pattern that
\* has matches and whose last match is in 0..100
FirstUsable(lists, i) ==
    IF i > Len(lists) THEN [ok |-> FALSE, n |-> 0]
    ELSE IF lists[i] # <<>> /\ InRange(lists[i][Len(lists[i])])
    THEN [ok |-> TRUE, n |-> lists[i][Len(lists[i])]]
    ELSE FirstUsable(lists, i + 1)

Contains(s, pat) == \E i \in 1..Len(s) : MatchAt(s, i, pat)
ContainsAny(s, pats) == \E pat \in pats : Contains(s, pat)

\* the word holds the given Chinese phrase
ZhHolds(l, phrase) ==
    l.t = "word" /\
    \/ l.w = phrase
    \/ phrase = "zh_di_kexindu" /\ l.w = "zh_jiaodi_kexindu"
HoldsZh(s, phrase) == \E i \in 1..Len(s) : ZhHolds(s[i], phrase)

HighWords == {<<W("high"), SP, W("confidence")>>, <<W("likely"), SP, W("authentic")>>}
ModerateWords == {<<W("moderate"), SP, W("confidence")>>,
                  <<W("further"), SP, W("examination")>>}
LowWords == {<<W("low"), SP, W("confidence")>>, <<W("concerns"), SP, W("present")>>}
VeryLowWords == {<<W("very"), SP, W("low"), SP, W("confidence")>>,
                 <<W("reproduction")>>, <<W("modern"), SP, W("piece")>>}

HighScore == 85
ModerateScore == 70
LowScore == 45
VeryLowScore == 25
DefaultModerateScore == 60

KeywordScore(s) ==
    IF \/ ContainsAny(s, HighWords)
       \/ HoldsZh(s, "zh_gao_kexindu") \/ HoldsZh(s, "zh_henkeneng_zhenpin")
    THEN HighScore
    ELSE IF \/ ContainsAny(s, ModerateWords)
            \/ HoldsZh(s, "zh_zhongdeng_kexindu") \/ HoldsZh(s, "zh_xuyao_jinyibu")
    THEN ModerateScore
    ELSE IF \/ ContainsAny(s, LowWords)
            \/ HoldsZh(s, "zh_jiaodi_kexindu") \/ HoldsZh(s, "zh_cunzai_yidian")
    THEN LowScore
    ELSE IF \/ ContainsAny(s, VeryLowWords)
            \/ HoldsZh(s, "zh_di_kexindu") \/ HoldsZh(s, "zh_fangzhipin")
            \/ HoldsZh(s, "zh_xiandai_zhipin")
    THEN VeryLowScore
    ELSE DefaultModerateScore

PreferredStep == 5

\* variant: the percentages near confidence words tried before the labelled
\* scores
ExtractContextFirst(s) ==
    LET st == FirstUsable(StructuredMatches(s), 1)
        cx == FirstUsable(ContextMatches(s), 1)
        valid == SelectSeq2(Percentages(s, 1), 0..100)
        pref  == SelectSeq2(valid, {n \in 0..100 : n % PreferredStep = 0})
    IN  IF cx.ok THEN cx.n
        ELSE IF st.ok THEN st.n
        ELSE IF pref # <<>> THEN pref[Len(pref)]
        ELSE IF valid # <<>> THEN valid[Len(valid)]
        ELSE KeywordScore(s)

extract_authenticity_score(s) ==
    LET st == FirstUsable(StructuredMatches(s), 1)
        cx == FirstUsable(ContextMatches(s), 1)
        valid == SelectSeq2(Percentages(s, 1), 0..100)
        pref  == SelectSeq2(valid, {n \in 0..100 : n % PreferredStep = 0})
    IN  IF st.ok THEN st.n
        ELSE IF cx.ok THEN cx.n
        ELSE IF pref # <<>> THEN pref[Len(pref)]
        ELSE IF valid # <<>> THEN valid[Len(valid)]
        ELSE KeywordScore(s)

----------------------------------------------------------------------------
(* _extract_category, _extract_period, _extract_material,                  *)
(* _extract_brief_analysis                                                 *)

ZhComma == P("zh_comma")
ZhStop  == P("zh_stop")
NoMatch == [ok |-> FALSE, s |-> <<>>]
Found(s) == [ok |-> TRUE, s |-> s]

\* "key":\s*"([^"]+)" at position i
QuotedFieldAt(s, i, key) ==
    IF MatchAt(s, i, <<QUOTE, W(key), QUOTE, COLON>>) THEN
        LET j == SkipWs(s, i + 4)
            k == FindFrom(s, QUOTE, j + 1)
        IN  IF At(s, j) = QUOTE /\ k > j + 1
            THEN Found(SubSeq(s, j + 1, k - 1)) ELSE NoMatch
    ELSE NoMatch

\* re.search of "key":\s*"([^"]+)" from position i
QuotedField(s, i, key) ==
    LET k == First({j \in i..Len(s) : QuotedFieldAt(s, j, key).ok})
    IN  IF k = 0 THEN NoMatch ELSE QuotedFieldAt(s, k, key)

\* a character of the class [，。\\n]: the two Chinese marks, a backslash;
\* the letter n is handled by HasN
IsStopChar(l) == l = ZhComma \/ l = ZhStop \/ l = BS

\* the piece of a word, as a lexeme sequence ("" gives nothing)
Piece(w) == IF w = "" THEN <<>> ELSE <<W(w)>>

\* the end of the run [^，。\\n]* that starts at i: the position of the stop
\* character or of the word holding an n, or the end of the text
RunEnd(s, i) ==
    IF i > Len(s) THEN i
    ELSE Least({j \in i..(Len(s) + 1) :
                  j > Len(s) \/ IsStopChar(s[j]) \/ HasN(s[j])})

\* [^，。\\n]* from position i: up to a stop character; a word is cut
\* before its first n
CaptureRun(s, i) ==
    LET e == RunEnd(s, i)
    IN  Slice(s, i, e - 1)
        \o (IF e <= Len(s) /\ HasN(s[e]) THEN Piece(EnWord[s[e].w].cut) ELSE <<>>)

\* a character of the class [：:\\s]: the two colons and a backslash (the
\* texts of the model have no word starting with s right after a label)
SkipLabelSep(s, i) == SkipWhile(s, i, {COLON, ZhColon, BS})

\* the separators the class gives back to the capture when nothing else can
\* be captured: those after the last backslash
GivenBack(s, a, b) ==
    LET k == Last({j \in a..b : s[j] = BS})
    IN  IF k = 0 THEN Slice(s, a, b) ELSE Slice(s, k + 1, b)

\* LABEL[：:\\s]*([^，。\\n]+) at position i
LabelledAt(s, i, labels) ==
    IF s[i].t = "word" /\ s[i].w \in labels THEN
        LET j   == SkipLabelSep(s, i + 1)
            cap == CaptureRun(s, j)
            gb  == GivenBack(s, i + 1, j - 1)
        IN  IF cap # <<>> THEN Found(cap)
            ELSE IF gb # <<>> THEN Found(gb)
            ELSE NoMatch
    ELSE NoMatch

Labelled(s, i, labels) ==
    LET k == First({j \in i..Len(s) : LabelledAt(s, j, labels).ok})
    IN  IF k = 0 THEN NoMatch ELSE LabelledAt(s, k, labels)

WareWords == {"zh_ciqi", "zh_yuqi", "zh_qingtongqi", "zh_shuhua", "zh_jiaju",
              "zh_taoqi"}
HasWord(s, ws) == \E i \in 1..Len(s) : s[i].t = "word" /\ s[i].w \in ws

\* 属于([^，。\\n]*(?:瓷器|玉器|青铜器|书画|家具|陶器)[^，。\\n]*)
BelongsTo(s, i) ==
    LET k == First({j \in i..Len(s) :
                      /\ s[j] = W("zh_shuyu")
                      /\ HasWord(CaptureRun(s, j + 1), WareWords)})
    IN  IF k = 0 THEN NoMatch ELSE Found(CaptureRun(s, k + 1))

PeriodMarkers == {"zh_chaodai", "zh_shiqi", "zh_niandai", "zh_nianjian",
                  "zh_xiandai_zhipin", "zh_default_period"}

\* the positions where a run [^，。\\n]* starts: the start of the text and
\* after each stop character or word holding an n
RunStarts(s) ==
    {1} \cup {j + 1 : j \in {k \in 1..Len(s) : IsStopChar(s[k]) \/ HasN(s[k])}}

\* the run that starts at a, with the tail of the word cut before it
RunFrom(s, a) ==
    (IF a > 1 /\ HasN(s[a - 1]) THEN Piece(EnWord[s[a - 1].w].tail) ELSE <<>>)
    \o Slice(s, a, RunEnd(s, a) - 1)

\* ([^，。\\n]*(?:朝|代|时期|年间)[^，。\\n]*): the first run between stop
\* characters that holds a marker
MarkedRun(s) ==
    LET a == First({j \in RunStarts(s) : HasWord(RunFrom(s, j), PeriodMarkers)})
        e == RunEnd(s, a)
    IN  IF a = 0 THEN NoMatch
        ELSE Found(RunFrom(s, a)
                   \o (IF e <= Len(s) /\ HasN(s[e])
                       THEN Piece(EnWord[s[e].w].cut) ELSE <<>>))

RECURSIVE FirstFound(_, _)
\* for pattern in patterns: match = re.search(...); if match: return
FirstFound(ms, i) ==
    IF i > Len(ms) THEN NoMatch
    ELSE IF ms[i].ok THEN ms[i] ELSE FirstFound(ms, i + 1)

OrDefault(m, dflt) == IF m.ok THEN Strip(m.s) ELSE <<W(dflt)>>

extract_category(s) ==
    OrDefault(FirstFound(<< QuotedField(s, 1, "category"),
                            Labelled(s, 1, {"zh_leixing"}),
                            BelongsTo(s, 1) >>, 1),
              "zh_default_category")

extract_period(s) ==
    OrDefault(FirstFound(<< QuotedField(s, 1, "period"),
                            Labelled(s, 1, {"zh_chaodai"}),
                            Labelled(s, 1, {"zh_shiqi"}),
                            Labelled(s, 1, {"zh_niandai"}),
                            MarkedRun(s) >>, 1),
              "zh_default_period")

extract_material(s) ==
    OrDefault(FirstFound(<< QuotedField(s, 1, "material"),
                            Labelled(s, 1, {"zh_caizhi"}),
                            Labelled(s, 1, {"zh_taiti"}),
                            Labelled(s, 1, {"zh_youliao"}) >>, 1),
              "zh_default_material")

\* LABEL[：:\\s]*([^。]+)。 at position i
SentenceAfterAt(s, i, label) ==
    IF s[i] = W(label) THEN
        LET j == SkipLabelSep(s, i + 1)
            k == FindFrom(s, ZhStop, j)
        IN  IF k = 0 THEN NoMatch
            ELSE IF k > j THEN Found(SubSeq(s, j, k - 1))
            ELSE IF j - 1 >= i + 1 THEN Found(<<s[j - 1]>>)
            ELSE NoMatch
    ELSE NoMatch

SentenceAfter(s, i, label) ==
    LET k == First({j \in i..Len(s) : SentenceAfterAt(s, j, label).ok})
    IN  IF k = 0 THEN NoMatch ELSE SentenceAfterAt(s, k, label)

SentenceEnds == {ZhStop, P("zh_excl"), P("zh_quest")}
BriefKeywords == {"zh_zhenpin", "zh_zhenpin_kenengxing", "zh_henkeneng_zhenpin",
                  "zh_fangpin", "zh_keneng", "zh_panduan", "zh_zonghe_panduan",
                  "zh_fenxi", "zh_jianyao_fenxi", "zh_default_brief",
                  "zh_default_material", "zh_default_report"}
MinSentenceLen == 20

\* sentences = re.split([。！？]): each starts at the start of the text or
\* after a mark, and ends before the next mark
SentenceStarts(s) == {1} \cup {j + 1 : j \in {k \in 1..Len(s) : s[k] \in SentenceEnds}}
SentenceFrom(s, a) ==
    IF a > Len(s) THEN <<>>
    ELSE Slice(s, a, Least({j \in a..(Len(s) + 1) :
                              j > Len(s) \/ s[j] \in SentenceEnds}) - 1)

\* the first sentence longer than 20 characters after strip that holds a
\* keyword
SummarySentence(s) ==
    LET a == First({j \in SentenceStarts(s) :
                      /\ TextLen(Strip(SentenceFrom(s, j))) > MinSentenceLen
                      /\ HasWord(SentenceFrom(s, j), BriefKeywords)})
    IN  IF a = 0 THEN NoMatch ELSE Found(SentenceFrom(s, a))

extract_brief_analysis(s) ==
    OrDefault(FirstFound(<< QuotedField(s, 1, "brief_analysis"),
                            SentenceAfter(s, 1, "zh_jianyao_fenxi"),
                            SentenceAfter(s, 1, "zh_zonghe_panduan"),
                            SummarySentence(s) >>, 1),
              "zh_default_brief")

----------------------------------------------------------------------------
(* _clean_text_for_display *)

\* "detailed_report":\s*" at position i
ReportMarkerAt(s, i) ==
    /\ MatchAt(s, i, <<QUOTE, W("detailed_report"), QUOTE, COLON>>)
    /\ At(s, SkipWs(s, i + 4)) = QUOTE

RECURSIVE DropReportMarker(_, _)
\* re.sub("detailed_report":\s*", '')
DropReportMarker(s, i) ==
    LET k == First({j \in i..Len(s) : ReportMarkerAt(s, j)})
    IN  IF k = 0 THEN Slice(s, i, Len(s))
        ELSE Slice(s, i, k - 1) \o DropReportMarker(s, SkipWs(s, k + 4) + 1)

RECURSIVE DropFences(_, _)
\* re.sub(```json|```, '')
DropFences(s, i) ==
    LET k == FindFrom(s, FENCE, i)
    IN  IF k = 0 THEN Slice(s, i, Len(s))
        ELSE Slice(s, i, k - 1)
             \o DropFences(s, IF At(s, k + 1) = W("json") THEN k + 2 ELSE k + 1)

RECURSIVE UnescapeQuotes(_, _)
\* replace backslash-quote by a quote
UnescapeQuotes(s, i) ==
    LET k == First({j \in i..Len(s) : s[j] = BS /\ At(s, j + 1) = QUOTE})
    IN  IF k = 0 THEN Slice(s, i, Len(s))
        ELSE Slice(s, i, k - 1) \o <<QUOTE>> \o UnescapeQuotes(s, k + 2)

\* the rest of a word that starts with n, after that n
AfterFirstN(w) == IF w = "null" THEN "ull" ELSE ""
StartsWithN(l) == l.t = "word" /\ l.w \in {"n", "null"}

RECURSIVE UnescapeNewlines(_, _)
\* replace backslash-n by a newline
UnescapeNewlines(s, i) ==
    LET k == First({j \in i..Len(s) : s[j] = BS /\ StartsWithN(At(s, j + 1))})
    IN  IF k = 0 THEN Slice(s, i, Len(s))
        ELSE Slice(s, i, k - 1) \o <<NL>> \o Piece(AfterFirstN(s[k + 1].w))
             \o UnescapeNewlines(s, k + 2)

\* the last newline of the whitespace run that starts at i (0 if none)
LastNewline(s, i) == Last({j \in i..(SkipWs(s, i) - 1) : s[j] = NL})

RECURSIVE CollapseBlankLines(_, _)
\* re.sub(\n\s*\n, \n\n)
CollapseBlankLines(s, i) ==
    LET k == First({j \in i..Len(s) : s[j] = NL /\ LastNewline(s, j + 1) # 0})
    IN  IF k = 0 THEN Slice(s, i, Len(s))
        ELSE Slice(s, i, k - 1) \o <<NL, NL>>
             \o CollapseBlankLines(s, LastNewline(s, k + 1) + 1)

clean_text_for_display(s) ==
    LET a == DropReportMarker(s, 1)
        b == DropFences(a, 1)
        c == UnescapeQuotes(b, 1)
        d == UnescapeNewlines(c, 1)
        e == CollapseBlankLines(d, 1)
    IN  Strip(e)

----------------------------------------------------------------------------
(* _parse_json_response *)

DefaultScore == 50

\* int(value) of a parsed JSON value: ok is FALSE for ValueError / TypeError
PyInt(v) ==
    CASE v.ty = "int"   -> [ok |-> TRUE, n |-> v.n]
      [] v.ty = "float" -> [ok |-> TRUE, n |-> v.n]
      [] v.ty = "str"   ->
            LET t == Strip(v.s)
                d == IF At(t, 1) = MINUS THEN Tail(t) ELSE t
            IN  IF Len(d) = 1 /\ d[1].t = "num"
                THEN [ok |-> TRUE, n |-> IF At(t, 1) = MINUS THEN 0 - d[1].n ELSE d[1].n]
                ELSE [ok |-> FALSE, n |-> 0]
      [] OTHER          -> [ok |-> FALSE, n |-> 0]

Max(a, b) == IF a >= b THEN a ELSE b
Min(a, b) == IF a <= b THEN a ELSE b

\* variant: min(100, n) alone, the lower limit forgotten
ClampHigh(n) == Min(100, n)

\* max(0, min(100, n))
ClampScore(n) == Max(0, Min(100, n))

\* what a call gives back: raised is TRUE when an exception leaves the
\* function; ret names the return statement reached
Returned(ret, d) == [raised |-> FALSE, ret |-> ret, data |-> d]
Raised == [raised |-> TRUE, ret |-> "raise", data |-> EmptyDict]

\* the six extractors applied to the text
Extracted(text) ==
    [k \in FieldSet |->
        CASE k = "authenticity_score" -> JInt(extract_authenticity_score(text))
          [] k = "category"           -> JStr(extract_category(text))
          [] k = "period"             -> JStr(extract_period(text))
          [] k = "material"           -> JStr(extract_material(text))
          [] k = "brief_analysis"     -> JStr(extract_brief_analysis(text))
          [] OTHER                    -> JStr(clean_text_for_display(text))]

\* the literals of the except branch
Defaults ==
    [k \in FieldSet |->
        CASE k = "authenticity_score" -> JInt(DefaultScore)
          [] k = "category"           -> JStr(<<W("zh_default_category")>>)
          [] k = "period"             -> JStr(<<W("zh_default_period")>>)
          [] k = "material"           -> JStr(<<W("zh_default_material")>>)
          [] k = "brief_analysis"     -> JStr(<<W("zh_default_brief")>>)
          [] OTHER                    -> JStr(<<W("zh_default_report")>>)]

\* except Exception: each field is extracted "if text else" its literal;
\* extracted is what the six extractors give for the text.
\* With text = None the preview print text[:300] raises TypeError.
ExceptBranch(isNone, text, extracted) ==
    IF isNone THEN Raised
    ELSE IF text # <<>> THEN Returned("except", extracted)
    ELSE Returned("except", Defaults)

\* variant: the JSONDecodeError leaves the function
FallbackRaises(extracted) == Raised

\* fallback_data after json.JSONDecodeError
FallbackBranch(extracted) == Returned("fallback", extracted)

CompleteAnalysis == <<W("complete"), SP, W("professional"), SP, W("analysis")>>

\* "\n\n".join(external_content)
JoinParagraphs(parts) ==
    IF Len(parts) = 2 THEN parts[1] \o <<NL, NL>> \o parts[2]
    ELSE IF Len(parts) = 1 THEN parts[1]
    ELSE <<>>

\* variant: the external content dropped
MergeExternalDropped(data, external_content) == data

\* lines 384-405: external content moved into detailed_report
MergeExternal(data, external_content) ==
    LET combined == CollapseBlankLines(
                        UnescapeQuotes(JoinParagraphs(external_content), 1), 1)
        existing == Strip(data["detailed_report"].s)
    IN  IF existing # <<>> /\ ~MatchAt(existing, 1, CompleteAnalysis)
        THEN [data EXCEPT !["detailed_report"] =
                            JStr(existing \o <<NL, NL>> \o combined)]
        ELSE [data EXCEPT !["detailed_report"] = JStr(combined)]

\* variant: every field from its extractor, the parsed value overwritten
FillMissingAlways(data, extracted) == extracted

\* variant: the missing fields left out
FillMissingNever(data, extracted) == data

\* lines 407-426: each missing field from its extractor
FillMissing(data, extracted) ==
    [k \in FieldSet |-> IF data[k] = Missing THEN extracted[k] ELSE data[k]]

\* variant: the score left as json.loads gave it
EnsureScoreUnchecked(data, extracted) == data

\* lines 428-433: the score limited, or extracted from the text when int()
\* raises
EnsureScore(data, extracted) ==
    LET i == PyInt(data["authenticity_score"])
    IN  [data EXCEPT !["authenticity_score"] =
            IF i.ok THEN JInt(ClampScore(i.n))
            ELSE extracted["authenticity_score"]]

\* lines 435-437
EnsureReport(data, extracted) ==
    IF Strip(data["detailed_report"].s) = <<>>
    THEN [data EXCEPT !["detailed_report"] = extracted["detailed_report"]]
    ELSE data

\* data.get('detailed_report', '').strip() works: the value is a str or
\* the key is missing
ReportIsStr(data) == data["detailed_report"].ty \in {"str", "missing"}

\* the try block from json.loads on
JsonBranch(text, data, external_content, extracted) ==
    IF external_content # <<>> /\ ~ReportIsStr(data)
    THEN ExceptBranch(FALSE, text, extracted)
    ELSE LET merged == IF external_content # <<>>
                       THEN MergeExternal(data, external_content) ELSE data
             filled == EnsureScore(FillMissing(merged, extracted), extracted)
         IN  IF ~ReportIsStr(filled) THEN ExceptBranch(FALSE, text, extracted)
             ELSE Returned("json", EnsureReport(filled, extracted))

\* the function from text = text.strip() on; extracted is what the six
\* extractors give for the stripped text, where the code calls them
ParseStripped(text, extracted) ==
    LET start_idx == Find(text, LB)
        end_idx   == RFind(text, RB)
    IN  IF start_idx = 0 \/ end_idx = 0 \/ start_idx >= end_idx
        THEN ExceptBranch(FALSE, text, extracted)
        ELSE
        LET json_str    == Slice(text, start_idx, end_idx)
            before_json == Strip(Slice(text, 1, start_idx - 1))
            after_json  == Strip(Slice(text, end_idx + 1, Len(text)))
            external_content ==
                (IF before_json # <<>> THEN <<before_json>> ELSE <<>>) \o
                (IF after_json # <<>> THEN <<after_json>> ELSE <<>>)
            loaded == json_loads(json_str)
        IN  IF loaded.ok
            THEN JsonBranch(text, loaded.data, external_content, extracted)
            ELSE FallbackBranch(extracted)

\* content is the model's answer: [none |-> it is None, text |-> the string];
\* None.strip() raises inside the try block
parse_json_response(content) ==
    IF content.none THEN ExceptBranch(TRUE, <<>>, Defaults)
    ELSE ParseStripped(Strip(content.text), Extracted(Strip(content.text)))

----------------------------------------------------------------------------
(* format_evaluation_report (evaluator.py) *)

Languages == {"en", "zh"}

\* what datetime.now().strftime gives: an input of the call
Stamps == {"stamp_a", "stamp_b"}

RECURSIVE SplitLines(_, _)
\* cleaned_text.split('\n') from position i
SplitLines(s, i) ==
    LET k == FindFrom(s, NL, i)
    IN  IF k = 0 THEN <<Slice(s, i, Len(s))>>
        ELSE <<Slice(s, i, k - 1)>> \o SplitLines(s, k + 1)

\* a letter of [A-Za-z]: an ASCII word or a prose run
IsAsciiLetters(l) == l.t = "text" \/ (l.t = "word" /\ ~IsZh(l.w))

\* ^\d+\.\s+[A-Za-z\s&]+ : the texts of the model hold no capital letter, no
\* asterisk and no bullet, so this is the only English heading rule that
\* can apply
IsEnglishHeading(line) ==
    /\ At(line, 1).t = "num" /\ At(line, 2) = DOT /\ IsWs(At(line, 3))
    /\ (IsWs(At(line, 4)) \/ IsAsciiLetters(At(line, 4)))

\* the words holding one of 鉴定 评估 分析 建议 价值 总结 结论 背景
HeadingWords == {"zh_jianding_pinggu", "zh_fenxi", "zh_jianyao_fenxi",
                 "zh_shichang_pinggu", "zh_default_material",
                 "zh_default_brief", "zh_default_report"}
ShortLineLen == 20

\* len(line) < 20 and a heading word in line and not line.startswith('-')
IsChineseHeading(line) ==
    /\ TextLen(line) < ShortLineLen
    /\ HasWord(line, HeadingWords)
    /\ At(line, 1) # MINUS

ReportPart(kind, bold, text) == [kind |-> kind, bold |-> bold, text |-> text]

\* the for loop over lines: blank lines dropped, headings set in bold
FormatLine(line, language) ==
    ReportPart("line",
               IF language = "en" THEN IsEnglishHeading(line)
               ELSE IsChineseHeading(line),
               line)

\* the parts joined by blank lines; "" for an empty report
format_evaluation_report(report_text, language, timestamp) ==
    IF report_text = <<>> THEN <<>>
    ELSE LET cleaned == clean_text_for_display(report_text)
             lines   == SplitLines(cleaned, 1)
             kept    == SelectSeq([i \in 1..Len(lines) |-> Strip(lines[i])],
                                  LAMBDA l : l # <<>>)
         IN  << ReportPart("main_title", FALSE, <<W(language)>>),
                ReportPart("subtitle", FALSE, <<W(language)>>),
                ReportPart("timestamp", FALSE, <<W(timestamp)>>),
                ReportPart("rule", FALSE, <<>>) >>
             \o [i \in 1..Len(kept) |-> FormatLine(kept[i], language)]
             \o << ReportPart("rule", FALSE, <<>>),
                   ReportPart("disclaimer", FALSE, <<W(language)>>) >>

----------------------------------------------------------------------------
(* format_evaluation_report (app.py) *)

\* a piece of the markup: a heading, a label/value row, a list item, a
\* score line, a paragraph or a spacer
AppPart(kind, key, value) == [kind |-> kind, key |-> key, value |-> value]

\* the words holding a keyword of lines 178-187 (第一步 .. 第五步, the
\* category headers, the subtitles): of the words of the model 市场评估 alone;
\* the texts of the model hold no bracket 【】
AppHeadingWords == {"zh_shichang_pinggu"}

\* the words holding one of 可信度 评分 分数 星级
AppScoreWords == {"zh_kexindu", "zh_kexindu_pingfen", "zh_zuizhong_kexindu",
                  "zh_zongti_kexindu", "zh_gao_kexindu", "zh_zhongdeng_kexindu",
                  "zh_jiaodi_kexindu", "zh_di_kexindu"}
LabelLimit == 20

\* line.split(':')[0] and line.split(':', 1)[1]
BeforeColon(line) == Slice(line, 1, Find(line, COLON) - 1)
AfterColon(line) == Slice(line, Find(line, COLON) + 1, Len(line))

\* ':' in line and len(line.split(':')[0]) < 20
IsLabelled(line) ==
    Find(line, COLON) # 0 /\ TextLen(BeforeColon(line)) < LabelLimit

\* line.startswith(('1.', .. '5.', '-')): the texts of the model hold no
\* bullet and no emoji
IsListItem(line) ==
    \/ At(line, 1) = MINUS
    \/ (At(line, 1).t = "num" /\ At(line, 1).n \in 1..5 /\ At(line, 2) = DOT)

\* the body of the for loop on a stripped line; the key has its ** removed,
\* of which the texts of the model hold none
AppFormatLine(line) ==
    IF line = <<>> THEN AppPart("spacer", <<>>, <<>>)
    ELSE IF HasWord(line, AppHeadingWords) THEN AppPart("heading", <<>>, line)
    ELSE IF IsLabelled(line)
    THEN AppPart("info", Strip(BeforeColon(line)), Strip(AfterColon(line)))
    ELSE IF IsListItem(line) THEN AppPart("list", <<>>, line)
    ELSE IF Find(line, PCT) # 0 \/ HasWord(line, AppScoreWords)
    THEN AppPart("score", <<>>, line)
    ELSE AppPart("paragraph", <<>>, line)

\* the pieces between the header and the footer of the markup; "" for an
\* empty report
app_format_evaluation_report(report_text) ==
    IF report_text = <<>> THEN <<>>
    ELSE LET lines == SplitLines(report_text, 1)
         IN  [i \in 1..Len(lines) |-> AppFormatLine(Strip(lines[i]))]

----------------------------------------------------------------------------
(* evaluate_antique and _prepare_image_content *)

\* an image argument: a data URI, a URL that downloads, a URL whose download
\* fails, or a value that is not a string
ImageKinds == {"data", "url_ok", "url_fail", "nonstr"}
ImageCap == 6

\* a list argument: None or a list
NoneList == [none |-> TRUE, items |-> <<>>]
List(items) == [none |-> FALSE, items |-> items]

\* _encode_image_from_url: a data URI, or None when requests.get fails
encode_image_from_url(image) == image = "url_ok"

\* the strings starting with "data:image/": the data URI of an uploaded
\* file and that of a file read from a path
DataUris == {"data", "data_file"}

\* the body of the for loop: the image gives a segment (an exception of
\* image.startswith is caught and the image skipped)
GivesSegment(image) ==
    CASE image \in DataUris -> TRUE
      [] image = "nonstr" -> FALSE
      [] OTHER            -> encode_image_from_url(image)

ImageSegment(image) == [type |-> "image_url", image |-> image]
DescriptionCap == 5

\* _build_user_message: the request in the language, with the title and
\* descriptions[:5] as reference information when there are any
TextSegment(a) ==
    [type |-> "text", language |-> a.language, title |-> a.title,
     descriptions |-> SubSeq(a.descriptions, 1,
                             Min(Len(a.descriptions), DescriptionCap))]

\* variant: the loop over all images, without the [:6] slice
ImageSegmentsUncapped(images) ==
    LET kept == SelectSeq(images, GivesSegment)
    IN  [i \in 1..Len(kept) |-> ImageSegment(kept[i])]

\* variant: the first six images that can be encoded, a later image taking
\* the place of one that fails
ImageSegmentsRefilled(images) ==
    LET kept   == SelectSeq(images, GivesSegment)
        capped == SubSeq(kept, 1, Min(Len(kept), ImageCap))
    IN  [i \in 1..Len(capped) |-> ImageSegment(capped[i])]

\* for image in images[:6]: the segments of the images that can be encoded
ImageSegments(images) ==
    LET capped == SubSeq(images, 1, Min(Len(images), ImageCap))
        kept   == SelectSeq(capped, GivesSegment)
    IN  [i \in 1..Len(kept) |-> ImageSegment(kept[i])]

prepare_image_content(image_urls) == ImageSegments(image_urls)

\* all_images: uploaded_files then image_urls, each only if truthy
AllImages(a) ==
    (IF a.uploaded_files.none THEN <<>> ELSE a.uploaded_files.items)
    \o (IF a.image_urls.none THEN <<>> ELSE a.image_urls.items)

\* user_message_content: the text, then the images if there are any
UserMessageContent(a) ==
    <<TextSegment(a)>>
    \o (IF AllImages(a) # <<>> THEN ImageSegments(AllImages(a)) ELSE <<>>)

ErrorMessage(language) ==
    IF language = "zh" THEN "error_zh" ELSE "error_en"

\* the dict of the except branch
FailureResult(language) ==
    [success |-> FALSE, error |-> ErrorMessage(language), score |-> JInt(0)]

\* variant: the dict of the try block with an error key of its own
SuccessResultWithError(content, data, language, timestamp) ==
    [success     |-> TRUE,
     error       |-> "none",
     evaluation  |-> format_evaluation_report(data["detailed_report"].s,
                                              language, timestamp),
     score       |-> data["authenticity_score"],
     raw_content |-> content,
     parsed_data |-> data]

\* the dict of the try block
SuccessResult(content, data, language, timestamp) ==
    [success     |-> TRUE,
     evaluation  |-> format_evaluation_report(data["detailed_report"].s,
                                              language, timestamp),
     score       |-> data["authenticity_score"],
     raw_content |-> content,
     parsed_data |-> data]

\* evaluation_content = response.choices[0].message.content
Content(answer) == [none |-> answer.none, text |-> answer.text]

\* variant: lines 102-117 outside the try block, the outcome used as parsed
AfterCompletionUnguarded(content, language, timestamp, p) ==
    SuccessResult(content, p.data, language, timestamp)

\* lines 102-117 with p the outcome of _parse_json_response
AfterCompletion(content, language, timestamp, p) ==
    IF p.raised THEN FailureResult(language)
    ELSE SuccessResult(content, p.data, language, timestamp)

\* variant: the model call made again after it raised
ModelCallsRetried(answer) == IF answer.raises THEN 2 ELSE 1

\* lines 90-97: client.chat.completions.create is called once, in no loop,
\* whether it returns or raises
ModelCalls(answer) == 1

\* the call: its result, the number of model calls it made and the message
\* it sent; answer is what client.chat.completions.create does
evaluate_antique(a, answer, timestamp) ==
    [api_calls |-> ModelCalls(answer),
     message   |-> UserMessageContent(a),
     result    |-> IF answer.raises THEN FailureResult(a.language)
                   ELSE AfterCompletion(Content(answer), a.language, timestamp,
                                        parse_json_response(Content(answer)))]

----------------------------------------------------------------------------
(* Inputs of the evaluator: arguments and model answers *)

MaxUploaded == 6
MaxUrls == 2
MaxOuter == 1

\* sequences over S of length at most n
SeqsUpTo(S, n) == UNION {[1..k -> S] : k \in 0..n}

UploadedLists ==
    {NoneList} \cup {List([i \in 1..n |-> "data"]) : n \in 0..MaxUploaded}
UrlLists == {NoneList} \cup {List(q) : q \in SeqsUpTo(ImageKinds, MaxUrls)}

\* title and descriptions: none given, or both
ReferenceInfo == { [title |-> "", descriptions |-> <<>>],
                   [title |-> "title", descriptions |-> <<"description">>] }

Args(uploaded_files, image_urls, descriptions, title, language) ==
    [uploaded_files |-> uploaded_files, image_urls |-> image_urls,
     descriptions |-> descriptions, title |-> title, language |-> language]

EvaluateArgs ==
    {Args(u, i, r.descriptions, r.title, l) :
        u \in UploadedLists, i \in UrlLists, r \in ReferenceInfo, l \in Languages}

\* a member value of the answered object: its JSON source and what
\* json.loads makes of it
Variant(src, v) == [src |-> src, v |-> v]
Absent == Variant(<<>>, Missing)
Quoted(s) == <<QUOTE>> \o s \o <<QUOTE>>
StrVariant(s) == Variant(Quoted(s), JStr(s))

ScoreVariants ==
    { Variant(<<N(42)>>, JInt(42)),
      Variant(<<N(137)>>, JInt(137)),
      Variant(<<MINUS, N(5)>>, JInt(0 - 5)),
      Variant(Quoted(<<N(137)>>), JStr(<<N(137)>>)),
      Variant(Quoted(<<MINUS, N(5)>>), JStr(<<MINUS, N(5)>>)),
      Variant(Quoted(<<W("high")>>), JStr(<<W("high")>>)),
      Variant(<<N(85), DOT, N(7)>>, JV("float", 85, <<>>)),
      Variant(<<W("null")>>, JNull),
      Absent }

CategoryVariants ==
    { StrVariant(<<W("vase")>>), StrVariant(<<SP, W("vase"), SP>>),
      StrVariant(<<>>), Absent }

ReportVariants ==
    { StrVariant(<<T(9)>>), StrVariant(<<>>), StrVariant(<<SP>>),
      StrVariant(CompleteAnalysis \o <<SP, T(2)>>),
      Variant(Quoted(<<T(2), BS, W("n"), T(3)>>), JStr(<<T(2), NL, T(3)>>)),
      Absent }

Variants(k) ==
    CASE k = "authenticity_score" -> ScoreVariants
      [] k = "category"           -> CategoryVariants
      [] k = "period"             -> {StrVariant(<<T(3)>>), Absent}
      [] k = "material"           -> {StrVariant(<<T(5)>>), Absent}
      [] k = "brief_analysis"     -> {StrVariant(<<T(7)>>), Absent}
      [] OTHER                    -> ReportVariants

\* the object the prompt asks for
CanonicalObject ==
    [k \in FieldSet |->
        CASE k = "authenticity_score" -> Variant(<<N(42)>>, JInt(42))
          [] k = "category"           -> StrVariant(<<W("vase")>>)
          [] k = "period"             -> StrVariant(<<T(3)>>)
          [] k = "material"           -> StrVariant(<<T(5)>>)
          [] k = "brief_analysis"     -> StrVariant(<<T(7)>>)
          [] OTHER                    -> StrVariant(<<T(9)>>)]

\* an object with the values the extractors give for the prose T(4)
ProseLikeObject ==
    [k \in FieldSet |->
        CASE k = "authenticity_score" -> Variant(<<N(60)>>, JInt(60))
          [] k = "category"           -> StrVariant(<<W("zh_default_category")>>)
          [] k = "period"             -> StrVariant(<<W("zh_default_period")>>)
          [] k = "material"           -> StrVariant(<<W("zh_default_material")>>)
          [] k = "brief_analysis"     -> StrVariant(<<W("zh_default_brief")>>)
          [] OTHER                    -> StrVariant(<<T(4)>>)]

\* the answered objects: the canonical one with one member varied, and the
\* prose-like one
Objects ==
    {CanonicalObject, ProseLikeObject} \cup
    UNION {{[CanonicalObject EXCEPT ![k] = v] : v \in Variants(k)} : k \in FieldSet}

RECURSIVE MembersText(_, _, _)
\* the members of the object from field i on, separated by ", "
MembersText(o, i, first) ==
    IF i > Len(Fields) THEN <<>>
    ELSE IF o[Fields[i]] = Absent THEN MembersText(o, i + 1, first)
    ELSE (IF first THEN <<>> ELSE <<COMMA, SP>>)
         \o <<QUOTE, W(Fields[i]), QUOTE, COLON, SP>> \o o[Fields[i]].src
         \o MembersText(o, i + 1, FALSE)

ObjectText(o) == <<LB>> \o MembersText(o, 1, TRUE) \o <<RB>>
ObjectValues(o) == [k \in FieldSet |-> o[k].v]

\* what the answer holds between its surrounding texts: nothing, an object,
\* or braces around something json.loads rejects
NoBody == [kind |-> "none", text |-> <<>>, object |-> EmptyDict]
ObjectBody(o) == [kind |-> "object", text |-> ObjectText(o), object |-> ObjectValues(o)]
BrokenBody(text) == [kind |-> "broken", text |-> text, object |-> EmptyDict]

BrokenBodies ==
    { BrokenBody(<<LB, T(4), RB>>),
      BrokenBody(<<LB, QUOTE, W("category"), QUOTE, COLON, SP, QUOTE, W("vase"),
                   QUOTE, COMMA, RB>>),
      BrokenBody(<<LB, QUOTE, W("period"), QUOTE, COLON, SP, QUOTE, T(3), NL,
                   QUOTE, RB>>),
      BrokenBody(<<LB, QUOTE, W("material"), QUOTE, COLON, SP, QUOTE, T(5),
                   QUOTE>>) }

Bodies ==
    {NoBody} \cup BrokenBodies
    \cup {ObjectBody(o) : o \in Objects}

\* the texts a model writes around the object
OuterChunks ==
    { <<T(4)>>, <<NL>>, <<LB>>, <<RB>>, <<FENCE>>,
      <<N(72), PCT>>, <<N(150), PCT>>,
      <<W("high"), SP, W("confidence")>>,
      <<W("confidence"), SP, W("score"), COLON, SP, N(30)>>,
      <<W("zh_leixing"), ZhColon, W("zh_ciqi"), ZhComma>>,
      <<W("zh_chaodai"), ZhColon, T(2), ZhStop>>,
      <<T(25), W("zh_zhenpin"), ZhStop>> }
OuterTexts == {<<>>} \cup OuterChunks

\* before and after the body, at most MaxOuter of them non-empty
Contexts ==
    {c \in OuterTexts \X OuterTexts :
        Cardinality({i \in 1..2 : c[i] # <<>>}) <= MaxOuter}

\* what client.chat.completions.create does: raises, or answers with a
\* message whose content is None or a text
Answer(raises, none, pre, body, post) ==
    [raises |-> raises, none |-> none, pre |-> pre, body |-> body, post |-> post,
     text |-> pre \o body.text \o post]
RaisingAnswer == Answer(TRUE, FALSE, <<>>, NoBody, <<>>)
NoneAnswer == Answer(FALSE, TRUE, <<>>, NoBody, <<>>)
TextAnswer(pre, body, post) == Answer(FALSE, FALSE, pre, body, post)

\* the answers of the interpreter runs
ParseAnswers ==
    {NoneAnswer} \cup {TextAnswer(c[1], b, c[2]) : c \in Contexts, b \in Bodies}

\* the answers of the request runs
EvalAnswers ==
    { RaisingAnswer, NoneAnswer,
      TextAnswer(<<>>, NoBody, <<>>),
      TextAnswer(<<T(4)>>, NoBody, <<>>),
      TextAnswer(<<>>, ObjectBody(CanonicalObject), <<>>),
      TextAnswer(<<>>, ObjectBody([CanonicalObject EXCEPT !["authenticity_score"] =
                     Variant(Quoted(<<N(137)>>), JStr(<<N(137)>>))]), <<NL>>) }

----------------------------------------------------------------------------
(* Inputs of the report functions: report texts of a few lines *)

MaxLines == 2

ReportLines ==
    { <<>>,
      <<T(9)>>,
      <<W("period"), COLON, SP, T(4)>>,
      <<SP, W("period"), SP, COLON, T(4), SP>>,
      <<W("period"), COLON, SP, T(2), COLON, T(3)>>,
      <<T(25), COLON, SP, T(4)>>,
      <<W("zh_shichang_pinggu"), COLON, SP, T(2)>>,
      <<N(1), DOT, SP, W("period"), COLON, SP, T(2)>>,
      <<MINUS, SP, T(5)>>,
      <<N(72), PCT>>,
      <<T(3), BS, QUOTE, T(3), BS, W("n"), T(2)>>,
      <<BS, BS, QUOTE, T(3)>>,
      <<FENCE, W("json"), SP, T(4), FENCE>>,
      <<QUOTE, W("detailed_report"), QUOTE, COLON, SP, QUOTE, T(5)>> }

RECURSIVE JoinLines(_)
\* "\n".join(lines)
JoinLines(lines) ==
    IF Len(lines) = 0 THEN <<>>
    ELSE IF Len(lines) = 1 THEN lines[1]
    ELSE lines[1] \o <<NL>> \o JoinLines(Tail(lines))

ReportTexts == {JoinLines(q) : q \in SeqsUpTo(ReportLines, MaxLines)}

----------------------------------------------------------------------------
(* Inputs of the score extractor: texts of a few phrases *)

MaxPhrases == 2

\* the phrases of the four keyword tiers, as the code lists them
TierPhrases(tier) ==
    CASE tier = "high" ->
            HighWords \cup {<<W("zh_gao_kexindu")>>, <<W("zh_henkeneng_zhenpin")>>}
      [] tier = "moderate" ->
            ModerateWords \cup {<<W("zh_zhongdeng_kexindu")>>, <<W("zh_xuyao_jinyibu")>>}
      [] tier = "low" ->
            LowWords \cup {<<W("zh_jiaodi_kexindu")>>, <<W("zh_cunzai_yidian")>>}
      [] OTHER ->
            VeryLowWords \cup {<<W("zh_di_kexindu")>>, <<W("zh_fangzhipin")>>,
                               <<W("zh_xiandai_zhipin")>>}

Tiers == {"high", "moderate", "low", "very_low"}

ListedPhrases == UNION {TierPhrases(tier) : tier \in Tiers}

\* labelled scores, percentages, a bare number and prose
NumberPhrases ==
    { <<W("confidence"), SP, W("score"), COLON, SP, N(30)>>,
      <<W("confidence"), SP, W("score"), COLON, SP, N(65), PCT>>,
      <<W("final"), SP, W("confidence"), COLON, SP, N(150)>>,
      <<W("authenticity"), COLON, SP, N(88), PCT>>,
      <<W("authentication"), SP, W("assessment")>>,
      <<N(72), PCT>>, <<N(70), PCT>>, <<N(150), PCT>>,
      <<N(3)>>,
      <<T(4)>>, <<T(60)>> }

ScorePhrases == NumberPhrases \cup ListedPhrases

RECURSIVE JoinPhrases(_)
\* " ".join(phrases)
JoinPhrases(phrases) ==
    IF Len(phrases) = 0 THEN <<>>
    ELSE IF Len(phrases) = 1 THEN phrases[1]
    ELSE phrases[1] \o <<SP>> \o JoinPhrases(Tail(phrases))

ScoreTexts == {JoinPhrases(q) : q \in SeqsUpTo(ScorePhrases, MaxPhrases)}

----------------------------------------------------------------------------
(* config.py: the API key and its two sources *)

\* a value of the secrets store, of the environment or of OPENAI_API_KEY:
\* None, a string, or a number written in the secrets file
KeyValue(ty, v) == [ty |-> ty, v |-> v]
NoKey == KeyValue("none", "")
StrKey(v) == KeyValue("str", v)
IntKey(v) == KeyValue("int", v)

\* bool(value)
Truthy(k) == (k.ty = "str" /\ k.v # "") \/ (k.ty = "int" /\ k.v # "0")

\* what st.secrets["OPENAI_API_KEY"] does: raises, or gives a value
SecretRaises(e) == [raises |-> e, value |-> NoKey]
SecretValue(k) == [raises |-> "", value |-> k]

SecretsReads ==
    {SecretRaises(e) : e \in {"KeyError", "FileNotFoundError", "AttributeError",
                              "RuntimeError"}}
    \cup {SecretValue(StrKey(v)) : v \in {"", "sk_a", "sk_b"}}
    \cup {SecretValue(IntKey(v)) : v \in {"0", "7"}}

\* what os.getenv("OPENAI_API_KEY") gives
EnvValues == {NoKey} \cup {StrKey(v) : v \in {"", "sk_a", "sk_b", "sk_c"}}

\* lines 10-20: the secret if reading it raises nothing, else the
\* environment variable (both except clauses read it); the print of
\* OPENAI_API_KEY[:10] raises TypeError for a non-empty value that is no
\* string, a falsy value is not sliced
ResolveKey(secrets, env) ==
    IF secrets.raises # "" THEN env
    ELSE IF Truthy(secrets.value) /\ secrets.value.ty # "str" THEN env
    ELSE secrets.value

Config(secrets, env, key) ==
    [secrets |-> secrets, env |-> env, OPENAI_API_KEY |-> key]

\* the module after its import
Loaded(secrets, env) == Config(secrets, env, ResolveKey(secrets, env))

\* a deployment without a secrets file: the key, if any, in the environment
EnvOnly(env) == Loaded(SecretRaises("FileNotFoundError"), env)

----------------------------------------------------------------------------
(* The page: app.py *)

MaxFiles == 1

\* a file the page is given: one that can be read and encoded, or not
FileKinds == {"ok", "bad"}
FileLists == SeqsUpTo(FileKinds, MaxFiles)
Examples == 1..2

FormInputs == {"manual_title", "manual_description", "estimated_period",
               "estimated_material", "acquisition_info"}
\* the inputs the user of the model types into
TypedInputs == {"manual_title", "manual_description"}

\* st.session_state: keys is the set of example keys the session holds;
\* example_loaded and example_images are the values of their keys, 0 and
\* the empty list when the key is absent
Session(language, reset_trigger, example_loaded, example_images, keys) ==
    [language |-> language, reset_trigger |-> reset_trigger,
     example_loaded |-> example_loaded, example_images |-> example_images,
     keys |-> keys]

\* main's first lines and create_language_selector on a new session
FreshSession == Session("en", FALSE, 0, <<>>, {})

\* the five keys the inputs take their value= from
ExampleTextKeys ==
    {"example_title", "example_description", "example_estimated_period",
     "example_estimated_material", "example_acquisition_info"}

\* the keys load_example_into_session assigns
ExampleKeysAssigned ==
    ExampleTextKeys \cup {"example_images", "example_loaded"}

\* load_example_into_session: the seven assignments and the trigger
load_example_into_session(s, example_num, image_files) ==
    Session(s.language, ~s.reset_trigger, example_num, image_files,
            s.keys \cup ExampleKeysAssigned)

\* variant: example_loaded is not deleted
ExampleKeysDeletedButLoaded == ExampleTextKeys \cup {"example_images"}

\* the keys reset_app deletes, each if the session holds it
ExampleKeysDeleted ==
    ExampleTextKeys \cup {"example_images", "example_loaded"}

\* variant: the trigger alone, nothing deleted
ResetTriggerOnly(s) ==
    Session(s.language, ~s.reset_trigger, s.example_loaded, s.example_images,
            s.keys)

\* reset_app up to st.rerun: the trigger, then the deletions
reset_app(s) ==
    LET kept == s.keys \ ExampleKeysDeleted
    IN  Session(s.language, ~s.reset_trigger,
                IF "example_loaded" \in kept THEN s.example_loaded ELSE 0,
                IF "example_images" \in kept THEN s.example_images ELSE <<>>,
                kept)

\* value= of the five inputs: the example's texts when the session holds
\* the five text keys
FormDefault(s) ==
    [f \in FormInputs |-> IF ExampleTextKeys \subseteq s.keys THEN "example" ELSE ""]

\* what a script run shows and does
Ui(event, shown, constructed, process, preview) ==
    [event |-> event, shown |-> shown, constructed |-> constructed,
     process |-> process, preview |-> preview]

\* example_images_to_display and the preview section
Preview(s, files) ==
    IF files # <<>> THEN "uploaded"
    ELSE IF /\ {"example_loaded", "example_images"} \subseteq s.keys
            /\ s.example_loaded # 0 /\ s.example_images # <<>> THEN "example"
    ELSE "none"

\* encode_uploaded_image / encode_image_file_path: a data URI, or None
encode_uploaded_image(file) == IF file = "ok" THEN "data" ELSE "none"
encode_image_file_path(file) == IF file = "ok" THEN "data_file" ELSE "none"

\* image_data_urls after the encoding loop; encoded holds what the encoder
\* returned for each file
EncodedAll(encoded) == SelectSeq(encoded, LAMBDA u : u # "none")

\* one st.warning per file that could not be encoded
EncodeWarnings(encoded) ==
    [i \in 1..Len(SelectSeq(encoded, LAMBDA u : u = "none")) |->
        "warning_cannot_process_image"]

HighConfidence == 80
MediumConfidence == 60
LowConfidence == 40

\* variant: the thresholds as strict bounds
ScoreMessageStrict(score) ==
    IF score > HighConfidence THEN "high_confidence"
    ELSE IF score > MediumConfidence THEN "medium_confidence"
    ELSE IF score > LowConfidence THEN "low_confidence"
    ELSE "very_low_confidence"

\* the score interpretation shown with the result
ScoreMessage(score) ==
    IF score >= HighConfidence THEN "high_confidence"
    ELSE IF score >= MediumConfidence THEN "medium_confidence"
    ELSE IF score >= LowConfidence THEN "low_confidence"
    ELSE "very_low_confidence"

\* the outcome of a process_evaluation_* call
Processed(shown, constructed, api, msg, res) ==
    [shown |-> shown, constructed |-> constructed, api_calls |-> api,
     message |-> msg, result |-> res]

NoResult == [success |-> FALSE, error |-> "none", score |-> JInt(0)]

\* what is shown after the call of evaluate_antique
ShowResult(warnings, failed, call) ==
    Processed(warnings \o
              (IF call.result.success
               THEN <<ScoreMessage(call.result.score.n), "report">>
               ELSE failed),
              1, call.api_calls, call.message, call.result)

\* the body shared by the two process_evaluation_* functions: encoded is
\* what the function's encoder returns for each file, failed what the
\* function shows for a result without success
ProcessEvaluation(encoded, failed, description, title, lang, key, answer, timestamp) ==
    IF ~key
    THEN Processed(<<"error_processing", "info_check_api_key">>, 1, 0, <<>>, NoResult)
    ELSE
    LET image_data_urls == EncodedAll(encoded)
        warnings        == EncodeWarnings(encoded)
    IN  IF image_data_urls = <<>>
        THEN Processed(warnings \o <<"error_no_image_processed">>, 1, 0, <<>>, NoResult)
        ELSE
        LET descriptions == IF description # <<>> THEN <<description>> ELSE <<>>
        IN  ShowResult(warnings, failed,
                       evaluate_antique(
                           Args(List(image_data_urls), NoneList, descriptions,
                                title, lang),
                           answer, timestamp))

process_evaluation_with_uploaded_files(uploaded_files, description, title, lang, key, answer, timestamp) ==
    ProcessEvaluation([i \in 1..Len(uploaded_files) |->
                          encode_uploaded_image(uploaded_files[i])],
                      <<"error_evaluation_failed">>,
                      description, title, lang, key, answer, timestamp)

process_evaluation_with_example_images(example_images, description, title, lang, key, answer, timestamp) ==
    ProcessEvaluation([i \in 1..Len(example_images) |->
                          encode_image_file_path(example_images[i])],
                      <<"error_evaluation_failed", "info_check_api_key">>,
                      description, title, lang, key, answer, timestamp)

\* the answers of the page runs
\* the scores the model answers with on the page: the ends of the range
\* and both sides of each threshold of the score interpretation
UiScores == {0, 39, 40, 59, 60, 79, 80, 85, 100}

UiAnswers ==
    { RaisingAnswer, NoneAnswer, TextAnswer(<<T(4)>>, NoBody, <<>>) }
    \cup { TextAnswer(<<>>,
                      ObjectBody([k \in FieldSet |->
                                     IF k = "authenticity_score"
                                     THEN Variant(<<N(n)>>, JInt(n)) ELSE Absent]),
                      <<>>) : n \in UiScores }

----------------------------------------------------------------------------
(* The page as a state machine: one action per script run *)

IdleUi == Ui("run", <<>>, 0, "none", "none")

\* the answer of a run in which the model is not asked
Unasked == NoneAnswer
NoArgs == Args(NoneList, NoneList, <<>>, "", "en")
NoParse == Returned("none", EmptyDict)

\* a direct call of a report function: the text and language it is given
\* and what it returns
Report(text, language, out) == [text |-> text, language |-> language, out |-> out]
NoReport == Report(<<>>, "en", <<>>)

\* a direct call of _extract_authenticity_score: the content it is given
\* and the number it returns
Score(content, value) == [content |-> content, value |-> value]
NoScore == Score(<<>>, 0)

\* a run of the launcher's main: where it is, what each step it took gave,
\* the answer to the prompt and the Streamlit processes it started
Launch(at, requirements, streamlit, installed, env_ok, response, started, printed) ==
    [at |-> at, requirements |-> requirements, streamlit |-> streamlit,
     installed |-> installed, env_ok |-> env_ok, response |-> response,
     started |-> started, printed |-> printed]
\* what a step gave, "unset" for a step not taken
Outcome(ok) == IF ok THEN "ok" ELSE "failed"
NoLaunch == Launch("idle", "unset", "unset", "unset", "unset", <<>>, 0, <<>>)

\* the variables of a direct evaluator call, untouched by the page
EvaluatorIdle ==
    /\ args = NoArgs
    /\ image_content = <<>>
    /\ parsed = NoParse
    /\ report = NoReport
    /\ score_call = NoScore
    /\ launcher = NoLaunch

Init ==
    /\ pc = "page"
    /\ session = FreshSession
    /\ uploaded = <<>>
    /\ form = FormDefault(FreshSession)
    /\ config \in {EnvOnly(env) : env \in {NoKey, StrKey("sk_a")}}
    /\ api_key = Truthy(config.OPENAI_API_KEY)
    /\ completion = Unasked
    /\ api_calls = 0
    /\ message = <<>>
    /\ result = NoResult
    /\ ui = IdleUi
    /\ EvaluatorIdle

\* variant: an event handled while the script run before it is blocked
ScriptIdleOrBlocked == TRUE

\* Streamlit runs main once per event of the session, one run after the
\* other: an event is handled when no run is under way
ScriptIdle == pc = "page"

\* a script run that reaches the end of main without a button click
Rerun(s, files) ==
    /\ ui' = Ui("run", <<>>, 0, "none", Preview(s, files))
    /\ api_calls' = 0
    /\ message' = <<>>
    /\ result' = NoResult
    /\ completion' = Unasked
    /\ UNCHANGED <<pc, config, api_key, args, image_content, parsed, report, score_call, launcher>>

\* the user changes the selection of the file uploader
UploadFiles(files) ==
    /\ ScriptIdle
    /\ files # uploaded
    /\ uploaded' = files
    /\ UNCHANGED <<session, form>>
    /\ Rerun(session, files)

\* the user types into one of the text inputs
TypeInput(f) ==
    /\ ScriptIdle
    /\ form[f] # "typed"
    /\ form' = [form EXCEPT ![f] = "typed"]
    /\ UNCHANGED <<session, uploaded>>
    /\ Rerun(session, uploaded)

\* create_language_selector: the selection differs from the session's
ChangeLanguage(new_lang) ==
    /\ ScriptIdle
    /\ new_lang # session.language
    /\ session' = [session EXCEPT !.language = new_lang]
    /\ UNCHANGED <<uploaded, form>>
    /\ Rerun(session', uploaded)

\* load_example_into_session and st.rerun: the widgets get new keys, so
\* the uploader is empty and the inputs show the example's texts
ClickExample(example_num, image_files) ==
    /\ ScriptIdle
    /\ session' = load_example_into_session(session, example_num, image_files)
    /\ uploaded' = <<>>
    /\ form' = FormDefault(session')
    /\ Rerun(session', <<>>)

\* reset_app and st.rerun
ClickReset ==
    /\ ScriptIdle
    /\ session' = reset_app(session)
    /\ uploaded' = <<>>
    /\ form' = FormDefault(session')
    /\ Rerun(session', <<>>)

\* variant: hasattr(st.session_state, 'example_images') alone
HasExamplesKey(s) == "example_images" \in s.keys

\* has_examples: the session has example images and the list is not empty
HasExamples(s) == "example_images" \in s.keys /\ s.example_images # <<>>

\* full_description: the prefixed texts of the filled inputs, in order
FullDescription(fm) ==
    SelectSeq(<<"manual_description", "estimated_period", "estimated_material",
                "acquisition_info">>, LAMBDA f : fm[f] # "")

\* variant: the example images if there are any, else the uploaded files
EvaluationRunExampleFirst(s, files, fm, key, answer, timestamp) ==
    IF HasExamples(s)
    THEN process_evaluation_with_example_images(
             s.example_images, FullDescription(fm), fm["manual_title"],
             s.language, key, answer, timestamp)
    ELSE process_evaluation_with_uploaded_files(
             files, FullDescription(fm), fm["manual_title"], s.language, key,
             answer, timestamp)

\* lines 1779-1783: the uploaded files if there are any, else the example
EvaluationRun(s, files, fm, key, answer, timestamp) ==
    IF files # <<>>
    THEN process_evaluation_with_uploaded_files(
             files, FullDescription(fm), fm["manual_title"], s.language, key,
             answer, timestamp)
    ELSE process_evaluation_with_example_images(
             s.example_images, FullDescription(fm), fm["manual_title"],
             s.language, key, answer, timestamp)

\* the path a run takes, as the page records it
PathOf(files) == IF files # <<>> THEN "uploaded" ELSE "example"

\* the warnings among the messages of a run: they are shown before the
\* model is called
WarningsOf(shown) ==
    SelectSeq(shown, LAMBDA m : m = "warning_cannot_process_image")

\* if evaluate_button: the check for images, then one of the two
\* process_evaluation_* calls, up to the end of the run or, when the run
\* calls the model, up to client.chat.completions.create, where it blocks
ClickEvaluate ==
    /\ ScriptIdle
    /\ IF uploaded = <<>> /\ ~HasExamples(session)
       THEN /\ ui' = Ui("evaluate", <<"error_no_images">>, 0, "none",
                        Preview(session, uploaded))
            /\ api_calls' = 0
            /\ message' = <<>>
            /\ result' = NoResult
            /\ pc' = pc
       ELSE \E run \in {EvaluationRun(session, uploaded, form, api_key,
                                      Unasked, "stamp_a")} :
                IF run.api_calls = 0
                THEN /\ ui' = Ui("evaluate", run.shown, run.constructed,
                                 PathOf(uploaded), Preview(session, uploaded))
                     /\ api_calls' = 0
                     /\ message' = run.message
                     /\ result' = run.result
                     /\ pc' = pc
                ELSE /\ ui' = Ui("evaluate", WarningsOf(run.shown),
                                 run.constructed, PathOf(uploaded),
                                 Preview(session, uploaded))
                     /\ api_calls' = run.api_calls
                     /\ message' = run.message
                     /\ result' = NoResult
                     /\ pc' = "model_call"
    /\ completion' = Unasked
    /\ UNCHANGED <<session, uploaded, form, config, api_key, args, image_content,
                   parsed, report, score_call, launcher>>

\* the model call of the run returns or raises, and the run goes on to its
\* end: the result or the failure is shown
ModelCallReturns(answer, timestamp) ==
    /\ pc = "model_call"
    /\ pc' = "page"
    /\ \E run \in {EvaluationRun(session, uploaded, form, api_key, answer,
                                  timestamp)} :
          /\ ui' = Ui("evaluate", run.shown, run.constructed,
                      PathOf(uploaded), Preview(session, uploaded))
          /\ api_calls' = run.api_calls
          /\ message' = run.message
          /\ result' = run.result
    /\ completion' = answer
    /\ UNCHANGED <<session, uploaded, form, config, api_key, args, image_content,
                   parsed, report, score_call, launcher>>

Next ==
    \/ \E files \in FileLists : UploadFiles(files)
    \/ \E f \in TypedInputs : TypeInput(f)
    \/ \E l \in Languages : ChangeLanguage(l)
    \/ \E n \in Examples, files \in FileLists : ClickExample(n, files)
    \/ ClickReset
    \/ ClickEvaluate
    \/ \E answer \in UiAnswers, timestamp \in Stamps : ModelCallReturns(answer, timestamp)

Spec == Init /\ [][Next]_vars

----------------------------------------------------------------------------
(* Direct calls of the evaluator: one call per behaviour *)

PageIdle ==
    /\ session = FreshSession
    /\ uploaded = <<>>
    /\ form = FormDefault(FreshSession)
    /\ config = EnvOnly(StrKey("sk_a"))
    /\ api_key = TRUE
    /\ ui = IdleUi

CallIdle ==
    /\ pc = "call"
    /\ api_calls = 0
    /\ message = <<>>
    /\ result = NoResult
    /\ image_content = <<>>
    /\ parsed = NoParse
    /\ report = NoReport
    /\ score_call = NoScore
    /\ launcher = NoLaunch
    /\ PageIdle

\* requests: many argument lists, a few answers
InitEval ==
    /\ args \in EvaluateArgs
    /\ completion \in EvalAnswers
    /\ CallIdle

\* interpreter runs: one uploaded image, many answers
InitParse ==
    /\ args \in {Args(List(<<"data">>), NoneList, <<>>, "", l) : l \in Languages}
    /\ completion \in ParseAnswers
    /\ CallIdle

\* variant: the request appended to the one of the call before
SentMessageWithHistory(previous, content) == previous \o content

\* line 53: user_message_content starts as an empty list in each call;
\* previous is the request of the call before
SentMessage(previous, content) == content

CallEvaluateAntique(timestamp) ==
    /\ pc = "call"
    /\ pc' = "evaluated"
    /\ \E call \in {evaluate_antique(args, completion, timestamp)} :
          /\ api_calls' = call.api_calls
          /\ message' = SentMessage(message, call.message)
          /\ result' = call.result
    /\ UNCHANGED <<session, uploaded, form, config, api_key, args, completion,
                   image_content, parsed, report, score_call, launcher, ui>>

\* a second call on the same evaluator, with the same arguments and the
\* same answer of the model, at a time of its own
RepeatEvaluateAntique(timestamp) ==
    /\ pc = "evaluated"
    /\ pc' = "repeated"
    /\ \E call \in {evaluate_antique(args, completion, timestamp)} :
          /\ api_calls' = call.api_calls
          /\ message' = SentMessage(message, call.message)
          /\ result' = call.result
    /\ UNCHANGED <<session, uploaded, form, config, api_key, args, completion,
                   image_content, parsed, report, score_call, launcher, ui>>

\* image_urls[:6] needs a list
CallPrepareImageContent ==
    /\ pc = "call"
    /\ ~args.image_urls.none
    /\ pc' = "prepared"
    /\ image_content' = prepare_image_content(args.image_urls.items)
    /\ UNCHANGED <<session, uploaded, form, config, api_key, args, completion, api_calls,
                   message, result, parsed, report, score_call, launcher, ui>>

\* the interpreter on the content of an answer
CallParseJsonResponse ==
    /\ pc = "call"
    /\ ~completion.raises
    /\ pc' = "parsed"
    /\ parsed' = parse_json_response([none |-> completion.none,
                                      text |-> completion.text])
    /\ UNCHANGED <<session, uploaded, form, config, report, score_call, launcher, api_key, args, completion, api_calls,
                   message, result, image_content, ui>>

NextEval ==
    \/ \E timestamp \in Stamps : CallEvaluateAntique(timestamp)
    \/ \E timestamp \in Stamps : RepeatEvaluateAntique(timestamp)
    \/ CallPrepareImageContent
    \/ CallParseJsonResponse

NextParse ==
    \/ \E timestamp \in Stamps : CallEvaluateAntique(timestamp)
    \/ CallParseJsonResponse

SpecEval == InitEval /\ [][NextEval]_vars
SpecParse == InitParse /\ [][NextParse]_vars

----------------------------------------------------------------------------
(* Start of the program: the import of config and AntiqueEvaluator() *)

InitConfig ==
    /\ pc = "import"
    /\ config \in {Config(s, e, NoKey) : s \in SecretsReads, e \in EnvValues}
    /\ api_key = FALSE
    /\ session = FreshSession
    /\ uploaded = <<>>
    /\ form = FormDefault(FreshSession)
    /\ ui = IdleUi
    /\ completion = Unasked
    /\ api_calls = 0
    /\ message = <<>>
    /\ result = NoResult
    /\ EvaluatorIdle

\* import config: the module body runs once
ImportConfig ==
    /\ pc = "import"
    /\ pc' = "configured"
    /\ config' = Loaded(config.secrets, config.env)
    /\ UNCHANGED <<session, uploaded, api_key, args, completion, api_calls,
                   message, result, image_content, parsed, report, score_call, launcher, form, ui>>

\* AntiqueEvaluator(): self.api_key = OPENAI_API_KEY, ValueError if it is
\* falsy
ConstructEvaluator ==
    /\ pc = "configured"
    /\ pc' = IF Truthy(config.OPENAI_API_KEY) THEN "constructed"
             ELSE "value_error"
    /\ api_key' = Truthy(config.OPENAI_API_KEY)
    /\ UNCHANGED <<session, uploaded, config, args, completion, api_calls,
                   message, result, image_content, parsed, report, score_call, launcher, form, ui>>

NextConfig == ImportConfig \/ ConstructEvaluator

SpecConfig == InitConfig /\ [][NextConfig]_vars

----------------------------------------------------------------------------
(* Direct calls of the report functions: one call per behaviour *)

InitReport ==
    /\ pc = "call"
    /\ report \in {Report(t, l, <<>>) : t \in ReportTexts, l \in Languages}
    /\ args = NoArgs
    /\ completion = Unasked
    /\ api_calls = 0
    /\ message = <<>>
    /\ result = NoResult
    /\ image_content = <<>>
    /\ parsed = NoParse
    /\ score_call = NoScore
    /\ launcher = NoLaunch
    /\ PageIdle

CallCleanTextForDisplay ==
    /\ pc = "call"
    /\ pc' = "cleaned"
    /\ report' = [report EXCEPT !.out = clean_text_for_display(report.text)]
    /\ UNCHANGED <<session, uploaded, config, api_key, args, completion,
                   api_calls, message, result, image_content, parsed, score_call, launcher,
                   form, ui>>

\* AntiqueEvaluator.format_evaluation_report
CallFormatEvaluationReport(timestamp) ==
    /\ pc = "call"
    /\ pc' = "formatted"
    /\ report' = [report EXCEPT !.out =
                     format_evaluation_report(report.text, report.language,
                                              timestamp)]
    /\ UNCHANGED <<session, uploaded, config, api_key, args, completion,
                   api_calls, message, result, image_content, parsed, score_call, launcher,
                   form, ui>>

\* format_evaluation_report of app.py
CallAppFormatEvaluationReport ==
    /\ pc = "call"
    /\ pc' = "formatted_app"
    /\ report' = [report EXCEPT !.out = app_format_evaluation_report(report.text)]
    /\ UNCHANGED <<session, uploaded, config, api_key, args, completion,
                   api_calls, message, result, image_content, parsed, score_call, launcher,
                   form, ui>>

NextReport ==
    \/ CallCleanTextForDisplay
    \/ \E timestamp \in Stamps : CallFormatEvaluationReport(timestamp)
    \/ CallAppFormatEvaluationReport

SpecReport == InitReport /\ [][NextReport]_vars

----------------------------------------------------------------------------
(* Direct calls of the score extractor: one call per behaviour *)

InitScore ==
    /\ pc = "call"
    /\ score_call \in {Score(t, 0) : t \in ScoreTexts}
    /\ report = NoReport
    /\ launcher = NoLaunch
    /\ args = NoArgs
    /\ completion = Unasked
    /\ api_calls = 0
    /\ message = <<>>
    /\ result = NoResult
    /\ image_content = <<>>
    /\ parsed = NoParse
    /\ PageIdle

CallExtractAuthenticityScore ==
    /\ pc = "call"
    /\ pc' = "scored"
    /\ score_call' = [score_call EXCEPT
          !.value = extract_authenticity_score(score_call.content)]
    /\ UNCHANGED <<session, uploaded, config, api_key, args, completion,
                   api_calls, message, result, image_content, parsed, report,
                   launcher, form, ui>>

NextScore == CallExtractAuthenticityScore

SpecScore == InitScore /\ [][NextScore]_vars

----------------------------------------------------------------------------
(* The launcher: launch.py *)

\* a printed line; files are the names an f-string puts into it
Say(text) == [text |-> text, files |-> {}]
SayFiles(text, files) == [text |-> text, files |-> files]

RequiredFiles == {"app.py", "config.py", "evaluator.py"}

\* check_requirements: python_ok is sys.version_info >= (3, 8), exists the
\* set of the required files that Path(f).exists() finds
check_requirements(python_ok, exists) ==
    LET missing_files == RequiredFiles \ exists
    IN  IF ~python_ok
        THEN [ok |-> FALSE,
              printed |-> <<Say("error_python_version"), Say("current_version")>>]
        ELSE IF missing_files # {}
        THEN [ok |-> FALSE,
              printed |-> <<SayFiles("error_missing_files", missing_files)>>]
        ELSE [ok |-> TRUE, printed |-> <<>>]

\* what subprocess.run of pip does: returncode 0, another returncode, or
\* an exception
PipRuns == {"zero", "nonzero", "raises"}

\* install_dependencies: requirements is Path('requirements.txt').exists()
install_dependencies(requirements, run) ==
    IF ~requirements
    THEN [ok |-> FALSE, printed |-> <<Say("error_no_requirements_file")>>]
    ELSE CASE run = "zero" ->
                [ok |-> TRUE,
                 printed |-> <<Say("installing"), Say("install_done")>>]
           [] run = "nonzero" ->
                [ok |-> FALSE,
                 printed |-> <<Say("installing"), Say("install_failed")>>]
           [] OTHER ->
                [ok |-> FALSE,
                 printed |-> <<Say("installing"), Say("install_error")>>]

\* os.getenv('OPENAI_API_KEY') after load_dotenv
PlaceholderKey == "your_openai_api_key_here"
EnvKeys == {"None", "", PlaceholderKey, "sk_a"}

\* what `from dotenv import load_dotenv; load_dotenv()` does
DotenvImports == {"imported", "ImportError", "raises"}

\* check_env_file: env_file is Path('.env').exists()
check_env_file(env_file, dotenv, key) ==
    IF ~env_file
    THEN [ok |-> FALSE,
          printed |-> <<Say("warning_no_env_file"), Say("create_env_file"),
                        Say("key_line"), Say("or_enter_in_sidebar")>>]
    ELSE CASE dotenv = "ImportError" ->
                [ok |-> FALSE, printed |-> <<Say("warning_no_dotenv")>>]
           [] dotenv = "raises" ->
                [ok |-> FALSE, printed |-> <<Say("warning_env_check_error")>>]
           [] OTHER ->
                IF key \in {"None", ""} \/ key = PlaceholderKey
                THEN [ok |-> FALSE,
                      printed |-> <<Say("warning_key_not_configured"),
                                    Say("set_key")>>]
                ELSE [ok |-> TRUE, printed |-> <<Say("env_ok")>>]

\* str.lower() of a word of an answer
LowerWord(w) ==
    CASE w \in {"y", "Y"} -> "y"
      [] w \in {"yes", "Yes", "YES"} -> "yes"
      [] w \in {"n", "N"} -> "n"
      [] OTHER -> w

\* str.lower()
Lower(s) ==
    [i \in 1..Len(s) |-> IF s[i].t = "word" THEN W(LowerWord(s[i].w)) ELSE s[i]]

\* input(...).lower().strip()
Response(line) == Strip(Lower(line))

\* the lines a user types at the prompt
ResponseLines ==
    { <<W("y")>>, <<W("yes")>>, <<W("Y")>>, <<SP, W("Yes"), SP>>,
      <<W("YES")>>, <<W("n")>>, <<>>, <<W("yeah")>>, <<W("y"), SP, W("es")>> }

\* variant: any answer but n goes on
DeclinesOnlyN(response) == response = <<W("n")>>

\* response not in ['y', 'yes']
Declines(response) == response \notin {<<W("y")>>, <<W("yes")>>}

\* what subprocess.Popen does in launch_streamlit
PopenOutcomes == {"started", "raises"}

InitLaunch ==
    /\ pc = "launcher"
    /\ completion = Unasked
    /\ api_calls = 0
    /\ message = <<>>
    /\ result = NoResult
    /\ EvaluatorIdle
    /\ PageIdle

Others == <<pc, session, uploaded, config, api_key, args, completion,
            api_calls, message, result, image_content, parsed, report,
            score_call, form, ui>>

\* main, lines 122-128: the title and check_requirements
MainCheckRequirements(python_ok, exists) ==
    /\ pc = "launcher"
    /\ launcher.at = "idle"
    /\ \E r \in {check_requirements(python_ok, exists)} :
          launcher' = [launcher EXCEPT
              !.at = IF r.ok THEN "import" ELSE "returned",
              !.requirements = Outcome(r.ok),
              !.printed = <<Say("title"), Say("rule")>> \o r.printed
                          \o (IF r.ok THEN <<>> ELSE <<Say("fix_and_rerun")>>)]
    /\ UNCHANGED Others

\* main, lines 131-138: import streamlit, and install_dependencies when
\* the import raises ImportError
MainImportStreamlit(importable, requirements, run) ==
    /\ pc = "launcher"
    /\ launcher.at = "import"
    /\ IF importable
       THEN launcher' = [launcher EXCEPT
                !.at = "env",
                !.streamlit = "imported",
                !.printed = @ \o <<Say("streamlit_installed")>>]
       ELSE \E r \in {install_dependencies(requirements, run)} :
              launcher' = [launcher EXCEPT
                !.at = IF r.ok THEN "env" ELSE "returned",
                !.streamlit = "ImportError",
                !.installed = Outcome(r.ok),
                !.printed = @ \o <<Say("streamlit_missing")>> \o r.printed
                            \o (IF r.ok THEN <<>> ELSE <<Say("install_by_hand")>>)]
    /\ UNCHANGED Others

\* main, lines 141-144: check_env_file, up to the prompt
MainCheckEnvFile(env_file, dotenv, key) ==
    /\ pc = "launcher"
    /\ launcher.at = "env"
    /\ \E r \in {check_env_file(env_file, dotenv, key)} :
          launcher' = [launcher EXCEPT
              !.at = IF r.ok THEN "launch" ELSE "prompt",
              !.env_ok = Outcome(r.ok),
              !.printed = @ \o r.printed]
    /\ UNCHANGED Others

\* main, lines 145-148: the answer to the prompt
MainPrompt(line) ==
    /\ pc = "launcher"
    /\ launcher.at = "prompt"
    /\ \E response \in {Response(line)} :
          launcher' = [launcher EXCEPT
              !.at = IF Declines(response) THEN "returned" ELSE "launch",
              !.response = line,
              !.printed = @ \o (IF Declines(response)
                                THEN <<Say("cancelled")>> ELSE <<>>)]
    /\ UNCHANGED Others

\* main, lines 150-153, and launch_streamlit up to the end of the process
MainLaunchStreamlit(popen) ==
    /\ pc = "launcher"
    /\ launcher.at = "launch"
    /\ launcher' = [launcher EXCEPT
          !.at = "returned",
          !.started = IF popen = "started" THEN @ + 1 ELSE @,
          !.printed = @ \o <<Say("rule"), Say("starting")>>
                      \o (IF popen = "started" THEN <<>>
                          ELSE <<Say("error_starting")>>)]
    /\ UNCHANGED Others

NextLaunch ==
    \/ \E python_ok \in BOOLEAN, exists \in SUBSET RequiredFiles :
          MainCheckRequirements(python_ok, exists)
    \/ \E importable \in BOOLEAN, requirements \in BOOLEAN, run \in PipRuns :
          MainImportStreamlit(importable, requirements, run)
    \/ \E env_file \in BOOLEAN, dotenv \in DotenvImports, key \in EnvKeys :
          MainCheckEnvFile(env_file, dotenv, key)
    \/ \E line \in ResponseLines : MainPrompt(line)
    \/ \E popen \in PopenOutcomes : MainLaunchStreamlit(popen)

SpecLaunch == InitLaunch /\ [][NextLaunch]_vars

----------------------------------------------------------------------------
(* Properties of the request: SpecEval and Spec *)

\* the image segments of the message sent to the model
SentImages == SelectSeq(message, LAMBDA seg : seg.type = "image_url")

\* an image that _prepare_image_content can encode
ValidImage(image) == image \in {"data", "url_ok"}

\* a call of evaluate_antique that was given no image at all
NoImageCall == pc = "evaluated" /\ AllImages(args) = <<>>

\* C1: a call of evaluate_antique with no image (uploaded_files and
\* image_urls both empty or None) returns success = False with an error and
\* makes no call of client.chat.completions.create
C1_NoImageFailsWithoutCall ==
    NoImageCall => (~result.success /\ api_calls = 0)

\* a call without images that asked the model and reports success
C1_NoImageCallSucceeds ==
    /\ NoImageCall
    /\ args.uploaded_files.none /\ args.image_urls.none
    /\ api_calls = 1
    /\ message = <<TextSegment(args)>>
    /\ result.success

\* the evaluate button was clicked with no uploaded file and no example image
ClickedWithoutImages ==
    /\ ui.event = "evaluate"
    /\ uploaded = <<>>
    /\ (session.example_loaded = 0 \/ session.example_images = <<>>)

\* C2: a click on evaluate with no uploaded files and no example images
\* shows the error and returns: no AntiqueEvaluator is constructed, neither
\* process_evaluation_* function runs and the model is not called
C2_ClickWithoutImagesOnlyShowsError ==
    ClickedWithoutImages =>
        /\ ui.shown = <<"error_no_images">>
        /\ ui.constructed = 0
        /\ ui.process = "none"
        /\ api_calls = 0
        /\ result = NoResult

\* the click on a page whose loaded example has an empty image list
C2_ClickedEmptyExample ==
    /\ ClickedWithoutImages
    /\ session.example_loaded # 0
    /\ api_key
    /\ ui.shown = <<"error_no_images">>
    /\ ui.constructed = 0

\* a call of evaluate_antique whose images all fail to be encoded
NothingEncodedCall ==
    /\ pc = "evaluated"
    /\ AllImages(args) # <<>>
    /\ \A i \in 1..Len(AllImages(args)) : ~ValidImage(AllImages(args)[i])

\* C3: when images are supplied but none can be normalised (every encoding
\* attempt fails), the outcome is an error result and the model is not called
C3_NothingEncodedFailsWithoutCall ==
    NothingEncodedCall => (~result.success /\ api_calls = 0)

\* a call whose only image is a URL that cannot be downloaded: the model is
\* asked with the text alone and the call reports success
C3_TextOnlyCallSucceeds ==
    /\ NothingEncodedCall
    /\ args.image_urls.items = <<"url_fail">>
    /\ api_calls = 1
    /\ SentImages = <<>>
    /\ result.success

\* a call of evaluate_antique with a non-empty list of valid images
ValidImagesCall ==
    /\ pc = "evaluated"
    /\ AllImages(args) # <<>>
    /\ \A i \in 1..Len(AllImages(args)) : ValidImage(AllImages(args)[i])

\* C4: for a non-empty list of n valid images the user message holds exactly
\* min(n, 6) image segments
C4_AtMostSixImageSegments ==
    ValidImagesCall =>
        Len(SentImages) = Min(Len(AllImages(args)), ImageCap)

\* a call with more than six valid images, six of them sent
C4_MoreThanSixImages ==
    /\ ValidImagesCall
    /\ Len(AllImages(args)) > ImageCap
    /\ Len(SentImages) = ImageCap

----------------------------------------------------------------------------
(* Properties of the interpreter: SpecParse *)

\* the model answered with a text
AnsweredText == ~completion.raises /\ ~completion.none

\* the object the answer holds, as its members were written
Given == completion.body.object

\* the answer holds a well-formed object with the six keys
SixKeyObject ==
    /\ AnsweredText
    /\ completion.body.kind = "object"
    /\ \A k \in FieldSet : Given[k] # Missing

\* no brace before the object opens and none after it closes: the span from
\* the first "{" to the last "}" of the text is the object
ObjectIsSpan ==
    /\ Find(completion.pre, LB) = 0
    /\ RFind(completion.post, RB) = 0

\* nothing but whitespace surrounds the object
ObjectStandsAlone ==
    /\ Strip(completion.pre) = <<>>
    /\ Strip(completion.post) = <<>>

ShortFields == {"category", "period", "material", "brief_analysis"}

\* a decimal integer literal, with or without a sign
IsIntegerLiteral(s) ==
    \/ Len(s) = 1 /\ s[1].t = "num"
    \/ Len(s) = 2 /\ s[1] = MINUS /\ s[2].t = "num"

\* the given score is an integer or a string holding an integer
ScoreIsInteger ==
    LET v == Given["authenticity_score"]
    IN  v.ty = "int" \/ (v.ty = "str" /\ IsIntegerLiteral(v.s))

\* the integer the given score stands for, limited to 0..100
GivenScoreInRange ==
    LET v == Given["authenticity_score"]
        n == IF v.ty = "int" THEN v.n
             ELSE IF Len(v.s) = 1 THEN v.s[1].n ELSE 0 - v.s[2].n
    IN  IF n > 100 THEN 100 ELSE IF n < 0 THEN 0 ELSE n

\* the returned score is an integer of 0..100
ScoreInRange(v) == v.ty = "int" /\ v.n \in 0..100

\* C5 as stated: when the completion text holds a well-formed JSON object
\* with the six keys, whatever surrounds it, _parse_json_response returns
\* exactly the object's category, period, material, brief_analysis and
\* detailed_report, and its score limited to 0..100 (stated here for the
\* objects whose detailed_report is not blank)
C5_SixKeyObjectReturnedAsGiven ==
    (/\ pc = "parsed"
     /\ SixKeyObject
     /\ Strip(Given["detailed_report"].s) # <<>>) =>
        /\ ~parsed.raised
        /\ \A k \in ShortFields \cup {"detailed_report"} :
              parsed.data[k] = Given[k]
        /\ ScoreInRange(parsed.data["authenticity_score"])
        /\ ScoreIsInteger =>
              parsed.data["authenticity_score"] = JInt(GivenScoreInRange)

\* C5 amended: when the first "{" and the last "}" of the text delimit a
\* well-formed six-key object, the four short fields are returned as given
\* and an integer score limited to 0..100; detailed_report is returned as
\* given when nothing but whitespace surrounds the object and it is not blank
C5_DelimitedObjectReturned ==
    (pc = "parsed" /\ SixKeyObject /\ ObjectIsSpan) =>
        /\ ~parsed.raised
        /\ parsed.ret = "json"
        /\ \A k \in ShortFields : parsed.data[k] = Given[k]
        /\ ScoreInRange(parsed.data["authenticity_score"])
        /\ ScoreIsInteger =>
              parsed.data["authenticity_score"] = JInt(GivenScoreInRange)
        /\ (ObjectStandsAlone /\ Strip(Given["detailed_report"].s) # <<>>) =>
              parsed.data["detailed_report"] = Given["detailed_report"]

\* an object followed by prose: the short fields are the object's, the
\* report is the object's with the prose appended
C5_ObjectFollowedByProse ==
    /\ pc = "parsed"
    /\ SixKeyObject
    /\ completion.body.object = ObjectValues(CanonicalObject)
    /\ completion.pre = <<>>
    /\ completion.post = <<T(4)>>
    /\ parsed.ret = "json"
    /\ \A k \in ShortFields : parsed.data[k] = Given[k]
    /\ parsed.data["detailed_report"] = JStr(<<T(9), NL, NL, T(4)>>)

\* the span from the first "{" to the last "}" of the stripped text is
\* accepted by json.loads
HasValidJson(text) ==
    LET t == Strip(text)
        a == Find(t, LB)
        b == RFind(t, RB)
    IN  a # 0 /\ b # 0 /\ a < b /\ json_loads(Slice(t, a, b)).ok

NoValidJson == AnsweredText /\ ~HasValidJson(completion.text)

\* C6: for a text without valid JSON (no braces, unbalanced braces or
\* content json.loads rejects) the returned record holds all six fields,
\* none null or missing, and evaluate_antique keeps success = True
C6_NoJsonStillSixFields ==
    /\ (pc = "parsed" /\ NoValidJson) =>
          /\ ~parsed.raised
          /\ \A k \in FieldSet : parsed.data[k].ty \notin {"missing", "null"}
    /\ (pc = "evaluated" /\ NoValidJson) => result.success

\* braces around something json.loads rejects: the fallback record
C6_RejectedJsonFallsBack ==
    /\ pc = "parsed"
    /\ NoValidJson
    /\ completion.body.kind = "broken"
    /\ parsed.ret = "fallback"
    /\ \A k \in FieldSet : parsed.data[k].ty \in {"int", "str"}

\* prose and whitespace only, with some prose
PlainProse ==
    /\ AnsweredText
    /\ \E i \in 1..Len(completion.text) : completion.text[i].t = "text"
    /\ \A i \in 1..Len(completion.text) :
          completion.text[i].t = "text" \/ IsWs(completion.text[i])

\* C7: plain prose without JSON, labelled field, number or confidence
\* keyword gives the default category, period and material and the score 50
C7_PlainProseGetsDefaults ==
    (pc = "parsed" /\ PlainProse) =>
        /\ ~parsed.raised
        /\ \A k \in {"category", "period", "material"} :
              parsed.data[k] = Defaults[k]
        /\ parsed.data["authenticity_score"] = JInt(DefaultScore)

\* plain prose scored 60 by the keyword step of the score extractor
C7_PlainProseScoredSixty ==
    /\ pc = "parsed"
    /\ PlainProse
    /\ \A k \in {"category", "period", "material"} :
          parsed.data[k] = Defaults[k]
    /\ parsed.data["authenticity_score"] = JInt(DefaultModerateScore)

C9_SuccessScoreInRange ==
    (pc = "evaluated" /\ result.success) => ScoreInRange(result.score)

\* a successful call whose answer gave the score 137
C9_SuccessWithLargeScore ==
    /\ pc = "evaluated"
    /\ result.success
    /\ AnsweredText
    /\ completion.body.kind = "object"
    /\ Given["authenticity_score"] = JInt(137)
    /\ result.score = JInt(100)

\* C10: _parse_json_response raises for no input: not for a text, the
\* empty string or None
C10_InterpreterNeverRaises ==
    pc = "parsed" => ~parsed.raised

\* the interpreter called with None: the exception leaves the function
C10_NoneRaises ==
    /\ pc = "parsed"
    /\ completion.none
    /\ parsed.raised

\* the dict holds a key besides the six fields
HasProvenanceFlag(data) == \E k \in DOMAIN data : k \notin FieldSet

\* C20: the result of _parse_json_response carries a provenance flag that
\* tells whether its six fields came from strict JSON parsing or from the
\* regex fallback
C20_ResultCarriesProvenance ==
    (pc = "parsed" /\ ~parsed.raised) => HasProvenanceFlag(parsed.data)

\* a dict returned for a JSON object that the interpreter also returns, from
\* the regex extractors of its except branch, for the prose of its report
C20_SameDictFromJsonAndRegex ==
    /\ pc = "parsed"
    /\ AnsweredText
    /\ parsed.ret = "json"
    /\ DOMAIN parsed.data = FieldSet
    /\ parse_json_response([none |-> FALSE,
                            text |-> parsed.data["detailed_report"].s])
          = Returned("except", parsed.data)

----------------------------------------------------------------------------
(* Properties of the error handling: Spec, SpecEval and SpecParse *)

\* the messages of a page run
Shown(m) == \E i \in 1..Len(ui.shown) : ui.shown[i] = m

\* a page run that entered one of the process_evaluation_* functions
Processing == pc = "page" /\ ui.event = "evaluate" /\ ui.process # "none"

\* the run called evaluate_antique and an exception was raised inside it:
\* by the model call, or by the interpreter on a content of None
RaisedInside == api_calls > 0 /\ (completion.raises \/ completion.none)

\* C11: every error on the evaluation path becomes the failure shape and is
\* shown as an error: an exception inside evaluate_antique gives success
\* False, the error text of the language and score 0, shown by the page as
\* a failed evaluation; the ValueError of AntiqueEvaluator() without an
\* API key is caught by process_evaluation_* and shown as an error
C11_ErrorsBecomeFailureShape ==
    Processing =>
        /\ ui.shown # <<>>
        /\ ~api_key =>
              /\ ui.constructed = 1
              /\ api_calls = 0
              /\ ui.shown = <<"error_processing", "info_check_api_key">>
        /\ RaisedInside =>
              /\ result = FailureResult(session.language)
              /\ result.error \in {"error_zh", "error_en"}
              /\ result.score = JInt(0)
              /\ Shown("error_evaluation_failed")
              /\ ~Shown("report")

\* the model answered with a content of None: the interpreter raised and
\* the page shows the failed evaluation
C11_NoneContentShownAsFailure ==
    /\ Processing
    /\ api_calls = 1
    /\ ~completion.raises
    /\ completion.none
    /\ result = FailureResult(session.language)
    /\ Shown("error_evaluation_failed")

\* C12: a call of evaluate_antique calls the model API at most once; when
\* that call raises, the failure result is returned without a second call
C12_AtMostOneModelCall ==
    pc = "evaluated" =>
        /\ api_calls <= 1
        /\ completion.raises =>
              /\ api_calls = 1
              /\ result = FailureResult(args.language)

\* the model call raised: one call made, the failure result returned
C12_RaisingCallNotRetried ==
    /\ pc = "evaluated"
    /\ completion.raises
    /\ api_calls = 1
    /\ ~result.success

\* C13: whenever the model call returns a completion, evaluate_antique
\* returns success = True, whether or not the completion is valid JSON
C13_CompletionAlwaysSucceeds ==
    (pc = "evaluated" /\ ~completion.raises) => result.success

\* the model call returned a completion whose content is None, and the
\* call of evaluate_antique returned the failure result
C13_NoneCompletionFails ==
    /\ pc = "evaluated"
    /\ ~completion.raises
    /\ completion.none
    /\ result = FailureResult(args.language)

\* a completion that is a text gives success = True, valid JSON or not
C13_TextCompletionSucceeds ==
    (pc = "evaluated" /\ AnsweredText) => result.success

----------------------------------------------------------------------------
(* Properties of the request as a function of its inputs: SpecEval *)

\* the formatted report without its date line
WithoutTimestamp(evaluation) ==
    SelectSeq(evaluation, LAMBDA part : part.kind # "timestamp")

\* a step from the first call of evaluate_antique to the second
SecondCall == pc = "evaluated" /\ pc' = "repeated"

CallReturned == pc \in {"evaluated", "repeated"}

\* the keys of the two dicts
SuccessKeys == {"success", "evaluation", "score", "raw_content", "parsed_data"}
FailureKeys == {"success", "error", "score"}

\* C17: in every result of evaluate_antique an error message is present if
\* and only if success is False; a successful result has the keys
\* evaluation, score, raw_content and parsed_data and no error key
C17_ErrorIffFailure ==
    CallReturned =>
        /\ ("error" \in DOMAIN result) <=> ~result.success
        /\ result.success => DOMAIN result = SuccessKeys
        /\ ~result.success =>
              /\ DOMAIN result = FailureKeys
              /\ result.error = ErrorMessage(args.language)

\* a successful result: five keys, none of them error
C17_SuccessWithoutErrorKey ==
    /\ pc = "evaluated"
    /\ AnsweredText
    /\ result.success
    /\ DOMAIN result = SuccessKeys

----------------------------------------------------------------------------
(* Properties of the page as a sequence of script runs: Spec *)

\* the run is blocked in the model call of evaluate_antique
CallOutstanding == pc = "model_call"

\* the step in which the outstanding call returns to its run
CallReturns ==
    /\ pc' = "page"
    /\ ui'.event = "evaluate"
    /\ ui'.process = ui.process
    /\ api_calls' = 1
    /\ UNCHANGED <<session, uploaded, form>>

----------------------------------------------------------------------------
(* Properties of the configuration: SpecConfig *)

\* the secrets store holds a non-empty key
SecretsHoldKey ==
    /\ config.secrets.raises = ""
    /\ config.secrets.value.ty = "str"
    /\ config.secrets.value.v # ""

\* the environment variable holds a non-empty key
EnvHoldsKey == config.env.ty = "str" /\ config.env.v # ""

\* C16: when the secrets store or the environment variable holds a
\* non-empty key, the resolved OPENAI_API_KEY is non-empty, and it is the
\* secret when both hold one
C16_KeyResolvedFromEitherSource ==
    pc # "import" =>
        /\ (SecretsHoldKey \/ EnvHoldsKey) => Truthy(config.OPENAI_API_KEY)
        /\ SecretsHoldKey => config.OPENAI_API_KEY = config.secrets.value

\* an empty secret with a key in the environment: the resolved key is the
\* empty secret and AntiqueEvaluator() raises ValueError
C16_EmptySecretHidesEnvironmentKey ==
    /\ pc = "value_error"
    /\ config.secrets = SecretValue(StrKey(""))
    /\ EnvHoldsKey
    /\ config.OPENAI_API_KEY = StrKey("")

\* what the resolution does give: the secret when it holds a key, the
\* environment variable when reading the secret raises
C16_SecretWinsWhenItHoldsKey ==
    pc # "import" =>
        /\ SecretsHoldKey => config.OPENAI_API_KEY = config.secrets.value
        /\ (~SecretsHoldKey /\ config.secrets.raises # "") =>
              config.OPENAI_API_KEY = config.env

----------------------------------------------------------------------------
(* Properties of the report functions: SpecReport *)

\* the text holds a backslash-n, a backslash-quote or a code fence
HoldsArtifact(text) ==
    \E i \in 1..Len(text) :
        \/ text[i] = FENCE
        \/ text[i] = BS /\ At(text, i + 1) = QUOTE
        \/ text[i] = BS /\ StartsWithN(At(text, i + 1))

\* C18: the output of _clean_text_for_display holds no backslash-n, no
\* backslash-quote and no code fence, for every input text, and cleaning it
\* again changes nothing
C18_CleanedTextHasNoArtifact ==
    pc = "cleaned" =>
        /\ ~HoldsArtifact(report.out)
        /\ clean_text_for_display(report.out) = report.out

\* a text with an escaped backslash before a quote: the cleaned text holds
\* a backslash-quote, which a second cleaning removes
C18_EscapedBackslashLeavesArtifact ==
    /\ pc = "cleaned"
    /\ Contains(report.text, <<BS, BS, QUOTE>>)
    /\ Contains(report.out, <<BS, QUOTE>>)
    /\ clean_text_for_display(report.out) # report.out

\* the label/value rows of the markup
InfoPairs(parts) ==
    LET rows == SelectSeq(parts, LAMBDA part : part.kind = "info")
    IN  [i \in 1..Len(rows) |-> <<rows[i].key, rows[i].value>>]

\* the "label: value" lines of a text: the stripped lines with a colon,
\* each as the pair of what stands before and after its first colon
SourcePairs(text) ==
    LET lines == SplitLines(text, 1)
        rows  == SelectSeq([i \in 1..Len(lines) |-> Strip(lines[i])],
                           LAMBDA line : Find(line, COLON) # 0)
    IN  [i \in 1..Len(rows) |->
            <<Strip(BeforeColon(rows[i])), Strip(AfterColon(rows[i]))>>]

\* C19: the label/value rows of the formatted report are the label/value
\* pairs of the "label: value" lines of the source text, in the same order
C19_PairsRoundTrip ==
    pc = "formatted_app" => InfoPairs(report.out) = SourcePairs(report.text)

\* a line whose label has 20 characters or more: the markup holds a
\* paragraph and no label/value row for it
C19_LongLabelLosesPair ==
    /\ pc = "formatted_app"
    /\ report.text = <<T(25), COLON, SP, T(4)>>
    /\ SourcePairs(report.text) = << <<<<T(25)>>, <<T(4)>>>> >>
    /\ InfoPairs(report.out) = <<>>

----------------------------------------------------------------------------
(* Properties of the interpreter, objects with missing keys and text *)
(* around the object: SpecParse *)

\* the stripped text the interpreter works on
RawText == Strip(completion.text)

\* the first "{" and the last "}" of the text delimit a well-formed object
ParsedObject ==
    /\ AnsweredText
    /\ completion.body.kind = "object"
    /\ ObjectIsSpan

\* the object lacks some of the six keys
LacksKeys == ParsedObject /\ \E k \in FieldSet : Given[k] = Missing

\* the value of a key: the object's when it is present, the extractor's
\* when it is missing
KeptOrExtracted(k, extracted) ==
    IF Given[k] = Missing THEN extracted[k] ELSE Given[k]

OutsideText ==
    LET before == Strip(completion.pre)
        after  == Strip(completion.post)
    IN  IF before # <<>> /\ after # <<>> THEN before \o <<NL, NL>> \o after
        ELSE before \o after

\* the report of the object, stripped; empty when the key is missing
ExistingReport == Strip(Given["detailed_report"].s)

----------------------------------------------------------------------------
(* Properties of the score extractor: SpecScore *)

RECURSIVE PctThenConf(_, _)
\* the percentages followed by a confidence word within the window
PctThenConf(s, i) ==
    LET k == First({j \in i..Len(s) :
                      /\ s[j].t = "num" /\ At(s, j + 1) = PCT
                      /\ ConfAfter(s, j + 2, 0) # 0})
    IN  IF k = 0 THEN <<>>
        ELSE <<s[k].n>> \o PctThenConf(s, ConfAfter(s, k + 2, 0) + 1)

\* the sources of the claim in their order, each pattern with its matches:
\* the labelled scores, the percentages near confidence words, any percentage
ClaimedSources(s) ==
    StructuredMatches(s) \o <<ConfThenPct(s, 1), PctThenConf(s, 1)>>
    \o <<Percentages(s, 1)>>

\* the value of the first source that yields a number of 0..100, the last
\* match of a pattern taken; the keywords and then 60 when none does
ClaimedScore(s) ==
    LET m == FirstUsable(ClaimedSources(s), 1)
    IN  IF m.ok THEN m.n ELSE KeywordScore(s)

\* C23 as stated: the score is that of the first source in the order
\* labelled scores, percentages near confidence words, any percentage,
\* keywords, default 60, the last match of a pattern taken, and lies in
\* 0..100
C23_FirstSourceLastMatch ==
    pc = "scored" =>
        /\ score_call.value = ClaimedScore(score_call.content)
        /\ score_call.value \in 0..100

\* the percentages of 0..100 of the text, in order
ValidPercentages(s) == SelectSeq(Percentages(s, 1), LAMBDA n : n \in 0..100)

\* the last element of a non-empty sequence
LastOf(q) == q[Len(q)]

\* C23 amended: the labelled scores come first, then the numbers near
\* confidence words (a percentage after the word, a number with or without
\* "%" before it), each pattern giving its last match if that is in 0..100;
\* then, of the percentages in 0..100, the last multiple of five or else
\* the last one; then the keywords and the default 60; every value lies in
\* 0..100
C23_SourcesInOrder ==
    pc = "scored" =>
        LET s     == score_call.content
            st    == FirstUsable(StructuredMatches(s), 1)
            cx    == FirstUsable(ContextMatches(s), 1)
            valid == ValidPercentages(s)
            fives == SelectSeq(valid, LAMBDA n : n % PreferredStep = 0)
        IN  /\ score_call.value \in 0..100
            /\ st.ok => score_call.value = st.n
            /\ (~st.ok /\ cx.ok) => score_call.value = cx.n
            /\ (~st.ok /\ ~cx.ok /\ fives # <<>>) =>
                  score_call.value = LastOf(fives)
            /\ (~st.ok /\ ~cx.ok /\ fives = <<>> /\ valid # <<>>) =>
                  score_call.value = LastOf(valid)
            /\ (~st.ok /\ ~cx.ok /\ valid = <<>>) =>
                  score_call.value \in {HighScore, ModerateScore, LowScore,
                                        VeryLowScore, DefaultModerateScore}

\* "70% 72%": the earlier percentage is returned, being a multiple of five
C23_MultipleOfFivePreferred ==
    /\ pc = "scored"
    /\ score_call.content = <<N(70), PCT, SP, N(72), PCT>>
    /\ ClaimedScore(score_call.content) = 72
    /\ score_call.value = 70

\* prose without a number or a keyword
ProsePhrases == {<<T(4)>>, <<T(60)>>}

\* the text was written with the listed phrase p and prose, p once
WrittenWithOnly(content, p) ==
    \E q \in SeqsUpTo(ProsePhrases \cup {p}, MaxPhrases) :
        /\ Cardinality({i \in 1..Len(q) : q[i] = p}) = 1
        /\ content = JoinPhrases(q)

TierScore(tier) ==
    CASE tier = "high"     -> HighScore
      [] tier = "moderate" -> ModerateScore
      [] tier = "low"      -> LowScore
      [] OTHER             -> VeryLowScore

\* C24: in a text without a number every phrase listed for a tier, when it
\* is the only listed phrase the text was written with, yields the score of
\* its tier: 85, 70, 45, and 25 for the phrases of the last tier
C24_ListedPhraseGivesTierScore ==
    pc = "scored" =>
        \A tier \in Tiers : \A p \in TierPhrases(tier) :
            WrittenWithOnly(score_call.content, p) =>
                score_call.value = TierScore(tier)

\* "very low confidence" holds "low confidence", a phrase of the tier
\* tested before: it is scored 45
C24_VeryLowConfidenceScoredLow ==
    /\ pc = "scored"
    /\ score_call.content = <<W("very"), SP, W("low"), SP, W("confidence")>>
    /\ WrittenWithOnly(score_call.content, score_call.content)
    /\ score_call.content \in TierPhrases("very_low")
    /\ score_call.value = LowScore

----------------------------------------------------------------------------
(* Properties of the session: Spec *)

\* the seven example keys of the session state
SevenExampleKeys ==
    {"example_title", "example_description", "example_estimated_period",
     "example_estimated_material", "example_acquisition_info",
     "example_images", "example_loaded"}

\* C25: after any sequence of UI operations the seven example keys of the
\* session state are all present or all absent
C25_ExampleKeysTogether ==
    \/ session.keys \cap SevenExampleKeys = {}
    \/ SevenExampleKeys \subseteq session.keys

\* example 2 loaded, the language changed and evaluate clicked: the seven
\* keys are present
C25_KeysPresentAfterExample ==
    /\ SevenExampleKeys \subseteq session.keys
    /\ session.example_loaded = 2
    /\ session.language = "zh"
    /\ ui.event = "evaluate"

\* a fresh session but for the language and the flipped trigger
FreshBut(language, reset_trigger) ==
    [FreshSession EXCEPT !.language = language, !.reset_trigger = reset_trigger]

\* C26: a reset click flips reset_trigger, deletes the example keys and the
\* inputs, empties the uploader and keeps the language, which leaves a
\* fresh session but for the language and the trigger; an evaluate click in
\* a session without upload and without example then shows the no-image
\* error and calls no model
C26_ResetGivesFreshSession ==
    /\ [][ClickReset =>
            /\ session' = FreshBut(session.language, ~session.reset_trigger)
            /\ uploaded' = <<>>
            /\ form' = FormDefault(FreshSession)]_vars
    /\ [][(/\ ClickEvaluate
           /\ uploaded = <<>>
           /\ \E l \in {"en", "zh"}, t \in BOOLEAN : session = FreshBut(l, t)) =>
            /\ ui'.shown = <<"error_no_images">>
            /\ ui'.constructed = 0
            /\ api_calls' = 0
            /\ pc' = "page"
            /\ result' = NoResult]_vars

\* an evaluate click after a reset in the Chinese page, nothing uploaded:
\* the trigger is set, the error is shown, no model call was made
C26_EvaluateAfterReset ==
    /\ session = FreshBut("zh", TRUE)
    /\ uploaded = <<>>
    /\ form = FormDefault(FreshSession)
    /\ ui.event = "evaluate"
    /\ ui.shown = <<"error_no_images">>
    /\ api_calls = 0
    /\ pc = "page"

\* the images of the message sent by the last evaluate click
SentImageSet == {SentImages[i].image : i \in 1..Len(SentImages)}

\* an evaluate click that built a message for the model
EvaluationSent == ui.event = "evaluate" /\ message # <<>>

\* C27: when the session holds uploaded files, with or without example
\* images, the evaluation takes the uploaded path and sends images of
\* uploaded files only; example images are sent only when no file is
\* uploaded
C27_UploadedFilesWin ==
    EvaluationSent =>
        IF uploaded # <<>>
        THEN /\ ui.process = "uploaded"
             /\ ui.preview = "uploaded"
             /\ SentImageSet = {encode_uploaded_image("ok")}
        ELSE /\ ui.process = "example"
             /\ HasExamples(session)
             /\ SentImageSet = {encode_image_file_path("ok")}

\* an evaluation of an uploaded file in a session whose example has an
\* image that could have been sent
C27_UploadSentBesideExample ==
    /\ EvaluationSent
    /\ pc = "page"
    /\ uploaded = <<"ok">>
    /\ session.example_images = <<"ok">>
    /\ HasExamples(session)
    /\ SentImageSet = {"data"}
    /\ result.success

----------------------------------------------------------------------------
(* Properties of the user message: SpecEval *)

\* the images handed to the call: the uploaded files, then the image URLs
GivenImages ==
    (IF args.uploaded_files.none THEN <<>> ELSE args.uploaded_files.items)
    \o (IF args.image_urls.none THEN <<>> ELSE args.image_urls.items)

\* the entries of the list that the loop considers
ConsideredImages == SubSeq(GivenImages, 1, Min(Len(GivenImages), ImageCap))

\* an image that processes: a data URI, or a URL that downloads
Processes(image) == image \in {"data", "data_file", "url_ok"}

\* the images of the image segments of the message, in its order
SentImageList == [i \in 1..Len(SentImages) |-> SentImages[i].image]

\* a call of evaluate_antique that built its user message
MessageBuilt == pc = "evaluated" /\ GivenImages # <<>>

\* C28: the user message has exactly one text segment, which comes first,
\* followed by the image segments in input order, uploaded files before image
\* URLs; only the first six entries of the list are considered, and an image
\* among them that fails to process is skipped: the request goes on and no
\* later image takes its place
C28_TextThenFirstSixImages ==
    MessageBuilt =>
        /\ message # <<>>
        /\ message[1].type = "text"
        /\ \A i \in 2..Len(message) : message[i].type = "image_url"
        /\ SentImageList = SelectSeq(ConsideredImages, Processes)
        /\ api_calls = 1

\* five uploaded files, a URL that fails to download and a seventh image
\* that would process: five image segments are sent
C28_FailedImageNotReplaced ==
    /\ MessageBuilt
    /\ Len(args.uploaded_files.items) = ImageCap - 1
    /\ args.image_urls.items = <<"url_fail", "url_ok">>
    /\ Len(SentImages) = ImageCap - 1
    /\ api_calls = 1
    /\ result.success

----------------------------------------------------------------------------
(* Properties of the score interpretation: Spec *)

ConfidenceMessages ==
    {"high_confidence", "medium_confidence", "low_confidence",
     "very_low_confidence"}

\* the confidence messages a script run showed, in order
ShownConfidence == SelectSeq(ui.shown, LAMBDA m : m \in ConfidenceMessages)

\* a script run that evaluated and got a successful result
SuccessfulRun == ui.event = "evaluate" /\ result.success

\* C29: for every successful result with score s in 0..100 exactly one of
\* the four confidence messages is shown, chosen by the same thresholds in
\* both processing paths: high for s >= 80, medium for 60 <= s < 80, low for
\* 40 <= s < 60, very low for s < 40
C29_OneConfidenceMessageByThreshold ==
    SuccessfulRun =>
        /\ ui.process \in {"uploaded", "example"}
        /\ result.score.n \in 0..100
        /\ \E s \in {result.score.n} :
              ShownConfidence =
                  << CASE s >= 80 -> "high_confidence"
                       [] s >= 60 /\ s < 80 -> "medium_confidence"
                       [] s >= 40 /\ s < 60 -> "low_confidence"
                       [] s < 40 -> "very_low_confidence" >>

\* an example evaluated with a score of exactly 80: the high-confidence
\* message is shown
C29_ThresholdScoreOnExamplePath ==
    /\ SuccessfulRun
    /\ ui.process = "example"
    /\ result.score.n = 80
    /\ ShownConfidence = <<"high_confidence">>

----------------------------------------------------------------------------
(* Properties of the launcher: SpecLaunch *)

\* the answer to the prompt, lowercased and stripped, is y or yes
AnsweredYes ==
    /\ launcher.env_ok = "failed"
    /\ launcher.at # "prompt"
    /\ \E w \in {"y", "Y", "yes", "Yes", "YES"} :
          launcher.response \in {<<W(w)>>, <<SP, W(w), SP>>}

\* the three conditions of a launch
LaunchConditions ==
    /\ launcher.requirements = "ok"
    /\ launcher.streamlit = "imported" \/ launcher.installed = "ok"
    /\ launcher.env_ok = "ok" \/ AnsweredYes

\* main is about to call launch_streamlit, or has called it
Launching ==
    \/ launcher.at = "launch"
    \/ launcher.started > 0
    \/ \E i \in 1..Len(launcher.printed) : launcher.printed[i].text = "starting"

\* C30: the launcher starts the Streamlit process only after
\* check_requirements succeeded, Streamlit is importable or
\* install_dependencies succeeded, and either the environment check passed or
\* the user answered y or yes to the prompt; in every other case main
\* returns without launching
C30_LaunchOnlyAfterChecks ==
    /\ Launching => LaunchConditions
    /\ (launcher.at = "returned" /\ ~LaunchConditions) => launcher.started = 0
    /\ (launcher.at = "returned" /\ LaunchConditions) => Launching

\* Streamlit was missing and installed, the key was not configured, the user
\* answered Yes: the process was started
C30_LaunchedAfterInstallAndYes ==
    /\ launcher.at = "returned"
    /\ launcher.started = 1
    /\ launcher.streamlit = "ImportError"
    /\ launcher.installed = "ok"
    /\ launcher.env_ok = "failed"
    /\ launcher.response = <<SP, W("Yes"), SP>>

====
